---------------------------- MODULE Spec2Model ----------------------------
(***************************************************************************)
(* Response pairing and latency aggregation of email-counter.              *)
(*                                                                         *)
(* Time is counted in whole seconds from a base instant that lies after    *)
(* every epoch the program uses.  A run analyses one source: the Messages  *)
(* walk (messages_analyzer.py), the Gmail adjacent scan                    *)
(* (gmail_analyzer.py), the Outlook adjacent scan (outlook_analyzer.py) or *)
(* the Todoist completion latencies (todoist_analyzer.py).                 *)
(***************************************************************************)
EXTENDS Integers, Sequences, FiniteSets, TLC

(* ------------------------------ bounds -------------------------------- *)

\* Messages held by the store of one run.
MaxMsgs == 3

\* Conversations (chat_id / threadId / conversationId) of one run.
MaxChats == 2

\* Instants lie 0..MaxTick seconds after the base and after base + 7 days.
MaxTick == 1

\* Completed items the Todoist API holds in one run.
MaxTasks == 2

\* SpecStats: conversations (and Todoist tasks) of a run, one pair each.
MaxPairs == 4

\* SpecScenario: the days on which the two-conversation scenario is placed.
MaxDay == 1

\* SpecWindows: messages held by the store.
MaxWindowMsgs == 4

\* SpecClient: the gists GitHub holds before the first run.
MaxGists == 1

\* SpecClient: the calls of main.
MaxRuns == 2

\* SpecFormat: the longest duration formatted, in seconds.
MaxSeconds == 180000

\* SpecReport: pairs each source has found in the last 28 days.
MaxFound == 1

(* --------------------------- program constants ------------------------ *)

\* messages_analyzer.py:180  response_seconds > 7 * 24 * 3600 is rejected.
SevenDays == 7 * 24 * 3600

\* messages_analyzer.py:178  response_seconds < 1 is rejected.
MinResponseSeconds == 1

\* A look-back of one day.
OneDayLookBack == 24 * 3600

\* messages_analyzer.py:134  wider_start = start_date - timedelta(days=7).
MessagesLookBack == 7 * 24 * 3600

\* outlook_analyzer.py:175  wider_start = start_date - timedelta(days=30).
OutlookLookBack == 30 * 24 * 3600

\* gmail_analyzer.py:142  maxResults=500, no paging.
GmailMaxResults == 500

\* outlook_analyzer.py:134  '$top': 100, no paging.
OutlookTop == 100

\* default of the parameter days of analyze_response_times.
DefaultDays == 30

Instants == (0..MaxTick) \cup {SevenDays + k : k \in 0..MaxTick}

Chats == 1..MaxChats

MailSources == {"gmail", "outlook", "messages"}

\* Python's None.
None == [none |-> TRUE]

(* ------------------------------ helpers ------------------------------- *)

\* list.sort(key=...) / sorted(...): a stable sort by the strict order Less.
StableSort(s, Less(_, _)) ==
    LET n == Len(s)
        Rank(i) == Cardinality({j \in 1..n :
                        \/ Less(s[j], s[i])
                        \/ (~Less(s[i], s[j]) /\ j < i)}) + 1
    IN  [r \in 1..n |-> s[CHOOSE i \in 1..n : Rank(i) = r]]

\* A list comprehension with a condition: the elements of s that satisfy
\* Keep, in their order.
Filter(s, Keep(_)) ==
    LET n == Len(s)
        kept == {i \in 1..n : Keep(s[i])}
        Pos(r) == CHOOSE i \in kept : Cardinality({j \in kept : j < i}) = r - 1
    IN  [r \in 1..Cardinality(kept) |-> s[Pos(r)]]

\* The first k elements (a page of at most k results).
Take(s, k) == IF Len(s) <= k THEN s ELSE SubSeq(s, 1, k)

DateLess(a, b) == a.date < b.date

DateGreaterThan(a, b) == a.date > b.date

\* ORDER BY c.chat_identifier, m.date ASC
ChatDateLess(a, b) == a.chat < b.chat \/ (a.chat = b.chat /\ a.date < b.date)

RECURSIVE SumSeq(_)
SumSeq(s) == IF s = <<>> THEN 0 ELSE Head(s) + SumSeq(Tail(s))

IntLess(a, b) == a < b

\* sorted(rt['response_time'].total_seconds() for rt in response_times)
SortedSeconds(lat) == StableSort(lat, IntLess)

\* A median that takes the lower middle element of an even-length list.
MedianLowerMiddle(lat) == SortedSeconds(lat)[((Len(lat) - 1) \div 2) + 1]

\* sorted_times[len(sorted_times) // 2]  (Python lists are 0-based)
MedianOf(lat) == SortedSeconds(lat)[(Len(lat) \div 2) + 1]

\* A minimum that takes the first element.
MinOfFirst(lat) == lat[1]

\* min(...) and max(...) over a non-empty list.
MinOf(lat) == CHOOSE x \in {lat[i] : i \in 1..Len(lat)} :
                  \A j \in 1..Len(lat) : x <= lat[j]

MaxOf(lat) == CHOOSE x \in {lat[i] : i \in 1..Len(lat)} :
                  \A j \in 1..Len(lat) : x >= lat[j]

\* A conversion that rounds to the nearest integer.
IntOfRounded(n, d) == (2 * n + d) \div (2 * d)

\* int(x) of the quotient n / d, d > 0: truncation toward zero.
IntOf(n, d) == IF n >= 0 THEN n \div d ELSE -((-n) \div d)

Plural(word, k) == IF k # 1 THEN <<word, "s">> ELSE <<word>>

\* format_duration(seconds) for seconds = n / d, d > 0.  The text is kept as
\* its pieces: "3 hours 0 min" is <<3, "hour", "s", 0, "min">> and
\* "5 seconds" is <<5, "second", "s">>.
FormatDuration(n, d) ==
    IF n < 60 * d THEN <<IntOf(n, d), "second", "s">>
    ELSE IF n < 3600 * d
         THEN LET minutes == IntOf(n, 60 * d)
              IN  <<minutes>> \o Plural("minute", minutes)
    ELSE IF n < 86400 * d
         THEN LET hours == IntOf(n, 3600 * d)
                  minutes == IntOf(n % (3600 * d), 60 * d)
              IN  <<hours>> \o Plural("hour", hours) \o <<minutes, "min">>
    ELSE LET days == IntOf(n, 86400 * d)
             hours == IntOf(n % (86400 * d), 3600 * d)
         IN  <<days>> \o Plural("day", days) \o <<hours>> \o Plural("hour", hours)

Latencies(rts) == [k \in 1..Len(rts) |-> rts[k].response_time]

\* The time of a key that is missing or that the parser rejects (parse_date
\* and _parse_date return None, datetime.fromisoformat raises).
NoDate == 0 - 1

Parses(t) == t # NoDate

(* ------------------------------- state -------------------------------- *)

VARIABLES
    source,          \* the analyzer of this run
    db,              \* the store: the rows / messages the provider holds
    tasks,           \* Todoist: the completed items the API holds
    start_date,      \* analyze_response_times(start_date=..., end_date=...)
    end_date,
    pc,              \* position in analyze_response_times
    messages,        \* the fetched list the outer loop runs over
    chats,           \* Messages: chat_id -> list of its messages
    chat_order,      \* Messages: the keys of chats in insertion order
    analyzed,        \* Gmail/Outlook: analyzed_threads / analyzed_conversations
    ci,              \* index of the outer loop
    mi,              \* Messages: index i of the inner loop
    last_received,   \* Messages: the pending received message or None
    response_times,  \* the pairs appended so far
    result,          \* the returned dict, None until the return
    found,           \* analyze_multi_period: the pairs of the last 28 days
    fetch,           \* whether the provider answers the first request
    first_pass,      \* the outcome of the pass before a repeated one, or None
    duration,        \* the argument <<n, d>> of a call format_duration(n / d)
    gist,            \* reporter: the document in the Messages gist, or None
    gmail_stats,     \* reporter: locals of generate_and_send_report
    outlook_stats,
    messages_stats,
    report,          \* reporter: what generate_html_report displays
    rpc,             \* reporter: position in generate_and_send_report
    entry,           \* client: the call under way, main() or upload_to_gist()
    gist_file,       \* client: the id in the file .messages_gist_id
    gist_id,         \* client: self.gist_id
    cpc,             \* client: position in main / run / upload_to_gist
    document,        \* client: stats, the document of the run, None before it
    requests,        \* client: the requests sent to api.github.com so far
    gists,           \* client: the ids of the gists GitHub holds
    exit_code,       \* client: what main returned
    runs,            \* client: the number of calls of main so far
    now_utc,         \* analyze_multi_period: the instant it captured
    passes           \* analyze_multi_period: the passes finished so far

\* The reporter's state.
reporter == <<gist, gmail_stats, outlook_stats, messages_stats, report, rpc>>

\* The Messages client's state.
client == <<entry, gist_file, gist_id, cpc, document, requests, gists,
            exit_code, runs>>

\* What an analyzer run is given and never writes.
inputs == <<source, db, tasks, start_date, end_date, found, fetch, first_pass,
            duration, reporter, client, now_utc, passes>>

\* The state of an analyzer run.
analysis == <<source, db, tasks, start_date, end_date, pc, messages, chats,
              chat_order, analyzed, ci, mi, last_received, response_times,
              result, found, fetch, first_pass, duration, client, now_utc,
              passes>>

\* The state of an analyzer run without the client's.
analysis_run == <<source, db, tasks, start_date, end_date, pc, messages, chats,
                  chat_order, analyzed, ci, mi, last_received, response_times,
                  result, found, fetch, first_pass, duration, now_utc, passes>>

vars == <<inputs, pc, messages, chats, chat_order, analyzed, ci, mi,
          last_received, response_times, result>>

\* "gist_id = None", and no file .messages_gist_id (an empty file gives the
\* empty text, which "if self.gist_id" takes as no id too).
NoGistId == 0

\* main has not returned.
NoExit == 0 - 1

\* No Messages client is running.
ClientIdle ==
    /\ entry = "none"
    /\ gist_file = NoGistId
    /\ gist_id = NoGistId
    /\ cpc = "idle"
    /\ document = None
    /\ requests = <<>>
    /\ gists = {}
    /\ exit_code = NoExit
    /\ runs = 0

\* No analyze_multi_period is under way.
MultiPeriodIdle ==
    /\ now_utc = 0
    /\ passes = <<>>

(* --------------------------- the store -------------------------------- *)

\* A stored message.  date is m.date (Messages), internalDate (Gmail) or
\* receivedDateTime (Outlook); sent is sentDateTime, which only Outlook reads
\* and only on the user's own messages; is_from_me is is_from_me (Messages),
\* 'SENT' in labelIds (Gmail) or _is_sent_by_me (Outlook).
MsgKinds(src) ==
    {[chat |-> c, date |-> t, sent |-> u, is_from_me |-> b] :
        c \in Chats, t \in Instants, u \in Instants, b \in BOOLEAN}

StoredKinds(src) ==
    {k \in MsgKinds(src) :
        IF src = "outlook" /\ k.is_from_me
        THEN k.sent <= k.date      \* a message is sent before it is filed
        ELSE k.sent = k.date}

\* The providers hand conversations over in date order (ORDER BY
\* c.chat_identifier, m.date ASC; $orderby receivedDateTime asc); rows of
\* equal date come in any order.
StoreOrdered(f) ==
    \A i \in DOMAIN f : \A j \in DOMAIN f :
        i < j => ~ChatDateLess(f[j], f[i])

WithId(f) ==
    [i \in DOMAIN f |->
        [id |-> i, chat |-> f[i].chat, date |-> f[i].date,
         sent |-> f[i].sent, is_from_me |-> f[i].is_from_me]]

\* No report is being generated.
ReporterIdle ==
    /\ found = <<>>
    /\ gist = None
    /\ gmail_stats = None
    /\ outlook_stats = None
    /\ messages_stats = None
    /\ report = None
    /\ rpc = "idle"

\* The first request of a run is answered, or it fails.
FetchOutcomes == {"ok", "error"}

\* A run of a mail analyzer before its first line.
MailStart ==
    \E src \in MailSources :
    \E n \in 0..MaxMsgs :
    \E f \in [1..n -> StoredKinds(src)] :
    \E s \in Instants : \E e \in Instants :
        /\ s <= e
        /\ StoreOrdered(f)
        /\ source = src
        /\ db = WithId(f)
        /\ tasks = <<>>
        /\ start_date = s
        /\ end_date = e
        /\ pc = "start"
        /\ messages = <<>>
        /\ chats = <<>>
        /\ chat_order = <<>>
        /\ analyzed = {}
        /\ ci = 1
        /\ mi = 1
        /\ last_received = None
        /\ response_times = <<>>
        /\ result = None
        /\ first_pass = None
        /\ duration = <<0, 1>>
        /\ ClientIdle
        /\ MultiPeriodIdle
        /\ ReporterIdle

InitMail == MailStart /\ fetch = "ok"

(* ------------------------ statistics (all mail) ----------------------- *)

\* The dict returned when response_times is non-empty.
PopulatedStats(rts, address, start, end) ==
    LET lat == Latencies(rts)
        total == SumSeq(lat)
        n == Len(rts)
        median == MedianOf(lat)
    IN  [total_responses |-> n,
         avg_response_time_seconds |-> <<total, n>>,
         avg_response_time_hours |-> <<total, n * 3600>>,
         avg_response_time_formatted |-> FormatDuration(total, n),
         median_response_time_seconds |-> median,
         median_response_time_hours |-> <<median, 3600>>,
         median_response_time_formatted |-> FormatDuration(median, 1),
         fastest_response |-> MinOf(lat),
         slowest_response |-> MaxOf(lat),
         response_details |-> rts,
         analysis_period_days |-> DefaultDays,
         start_date |-> start,
         end_date |-> end,
         email_address |-> address,
         generated_at |-> "now"]

\* An empty result that still carries zeroed statistics.
EmptyStatsWithZeros(address, start, end) ==
    [total_responses |-> 0,
     avg_response_time_seconds |-> <<0, 1>>,
     median_response_time_seconds |-> 0,
     fastest_response |-> 0,
     slowest_response |-> 0,
     message |-> "No responses found in the specified period",
     analysis_period_days |-> DefaultDays,
     start_date |-> start,
     end_date |-> end,
     email_address |-> address,
     generated_at |-> "now"]

\* The dict returned when response_times is empty.
EmptyStats(address, start, end) ==
    [total_responses |-> 0,
     message |-> "No responses found in the specified period",
     analysis_period_days |-> DefaultDays,
     start_date |-> start,
     end_date |-> end,
     email_address |-> address,
     generated_at |-> "now"]

(* ------------------------------ Messages ------------------------------ *)

\* get_messages_in_timeframe(lo, hi): WHERE m.date >= lo AND m.date <= hi
\* ORDER BY c.chat_identifier, m.date ASC.
InTimeframe(m, lo, hi) == m.date >= lo /\ m.date <= hi

GetMessagesInTimeframe(lo, hi) ==
    LET Keep(m) == InTimeframe(m, lo, hi)
    IN  StableSort(Filter(db, Keep), ChatDateLess)

MessagesFetch ==
    /\ source = "messages"
    /\ pc = "start"
    /\ fetch = "ok"
    /\ messages' = GetMessagesInTimeframe(start_date - MessagesLookBack, end_date)
    /\ pc' = "group"
    /\ UNCHANGED <<inputs, chats, chat_order,
                   analyzed, ci, mi, last_received, response_times, result>>

\* for msg in messages: chats[msg['chat_id']].append(msg)
ChatIds(msgs) == {msgs[k].chat : k \in 1..Len(msgs)}

FirstAt(msgs, c) == CHOOSE k \in 1..Len(msgs) :
                        /\ msgs[k].chat = c
                        /\ \A j \in 1..(k - 1) : msgs[j].chat # c

\* A grouping that appends every message to every chat's list.
GroupByChatAll(msgs) == [c \in ChatIds(msgs) |-> msgs]

GroupByChat(msgs) ==
    [c \in ChatIds(msgs) |->
        LET Keep(m) == m.chat = c IN Filter(msgs, Keep)]

\* dict keys iterate in insertion order: the order of first appearance.
InsertionOrder(msgs) ==
    LET ids == ChatIds(msgs)
        KeyAt(r) == CHOOSE c \in ids :
            Cardinality({x \in ids : FirstAt(msgs, x) < FirstAt(msgs, c)}) = r - 1
    IN  [r \in 1..Cardinality(ids) |-> KeyAt(r)]

MessagesGroup ==
    /\ source = "messages"
    /\ pc = "group"
    /\ chats' = GroupByChat(messages)
    /\ chat_order' = InsertionOrder(messages)
    /\ ci' = 1
    /\ pc' = "chat"
    /\ UNCHANGED <<inputs, messages, analyzed, mi,
                   last_received, response_times, result>>

\* A sort that leaves messages of equal date in the reverse of their order.
SortChatFlipTies(chat_messages) ==
    LET descending == StableSort(chat_messages, DateGreaterThan)
    IN  [k \in 1..Len(descending) |-> descending[Len(descending) + 1 - k]]

\* chat_messages.sort(key=lambda m: m['date']); last_received = None
SortChat(chat_messages) == StableSort(chat_messages, DateLess)

MessagesNextChat ==
    /\ source = "messages"
    /\ pc = "chat"
    /\ ci <= Len(chat_order)
    /\ chats' = [chats EXCEPT ![chat_order[ci]] = SortChat(@)]
    /\ last_received' = None
    /\ mi' = 1
    /\ pc' = "walk"
    /\ UNCHANGED <<inputs, messages, chat_order,
                   analyzed, ci, response_times, result>>

\* c.service_name: a chat is an iMessage chat or an SMS chat.
ServiceName(chat_id) == IF chat_id % 2 = 1 THEN "iMessage" ELSE "SMS"

MessagesPair(received, msg) ==
    [received |-> received.date,
     sent |-> msg.date,
     response_time |-> msg.date - received.date,
     service |-> ServiceName(received.chat),
     chat |-> received.chat,
     rid |-> received.id,
     sid |-> msg.id]

\* "if i > 0 and chat_messages[i-1]['is_from_me']: continue"
IsFollowUp(chat_messages, i) == i > 1 /\ chat_messages[i - 1].is_from_me

\* A window that is half-open at end_date.
InWindowHalfOpen(t) == start_date <= t /\ t < end_date

\* "if start_date <= msg['date'] <= end_date"
InWindow(t) == start_date <= t /\ t <= end_date

\* A sanity check that rejects only negative latencies.
TooFastNegativeOnly(seconds) == seconds < 0

\* The two sanity checks on response_seconds.
TooFast(seconds) == seconds < MinResponseSeconds

TooSlow(seconds) == seconds > SevenDays

\* A walk that keeps the earliest unanswered received message.
OnReceivedKeepFirst(pending, msg) == IF pending = None THEN msg ELSE pending

\* "if not msg['is_from_me']: last_received = msg"
OnReceived(pending, msg) == msg

\* One iteration of "for i, msg in enumerate(chat_messages)".
MessagesWalk ==
    /\ source = "messages"
    /\ pc = "walk"
    /\ LET chat_messages == chats[chat_order[ci]]
           msg == chat_messages[mi]
           seconds == msg.date - last_received.date
       IN  /\ IF ~msg.is_from_me
              THEN /\ last_received' = OnReceived(last_received, msg)
                   /\ UNCHANGED response_times
              ELSE IF last_received = None
              THEN UNCHANGED <<last_received, response_times>>
              ELSE IF IsFollowUp(chat_messages, mi)
              THEN UNCHANGED <<last_received, response_times>>
              ELSE IF ~InWindow(msg.date)
              THEN /\ last_received' = None
                   /\ UNCHANGED response_times
              ELSE IF TooFast(seconds) \/ TooSlow(seconds)
              THEN UNCHANGED <<last_received, response_times>>
              ELSE /\ response_times' =
                          Append(response_times, MessagesPair(last_received, msg))
                   /\ last_received' = None
           /\ IF mi < Len(chat_messages)
              THEN /\ mi' = mi + 1
                   /\ UNCHANGED <<ci, pc>>
              ELSE /\ mi' = 1
                   /\ ci' = ci + 1
                   /\ pc' = "chat"
    /\ UNCHANGED <<inputs, messages, chats,
                   chat_order, analyzed, result>>

\* sum(1 for rt in response_times if rt['service'] == name)
CountService(rts, name) ==
    Cardinality({k \in 1..Len(rts) : rts[k].service = name})

\* The Messages dict: the common keys and the two counts by service.
MessagesPopulatedStats(rts, start, end) ==
    PopulatedStats(rts, "Messages", start, end) @@
    [imessage_count |-> CountService(rts, "iMessage"),
     sms_count |-> CountService(rts, "SMS")]

MessagesStats ==
    /\ source = "messages"
    /\ pc = "chat"
    /\ ci > Len(chat_order)
    /\ result' = IF response_times # <<>>
                 THEN MessagesPopulatedStats(response_times, start_date, end_date)
                 ELSE EmptyStats("Messages", start_date, end_date)
    /\ pc' = "done"
    /\ UNCHANGED <<inputs, messages, chats,
                   chat_order, analyzed, ci, mi, last_received, response_times>>

(* -------------------------------- Gmail ------------------------------- *)

\* strftime("%Y/%m/%d"): the instant's calendar day, as its first second.
DayOf(t) == t - (t % 86400)

\* q = 'from:me after:<day of start_date>', maxResults=500, newest first.
DateGreater(a, b) == a.date > b.date

GmailListSent ==
    LET Keep(m) == m.is_from_me /\ Parses(m.date) /\ m.date >= DayOf(start_date)
    IN  Take(StableSort(Filter(db, Keep), DateGreater), GmailMaxResults)

GmailList ==
    /\ source = "gmail"
    /\ pc = "start"
    /\ fetch = "ok"
    /\ messages' = GmailListSent
    /\ ci' = 1
    /\ pc' = "loop"
    /\ UNCHANGED <<inputs, chats, chat_order,
                   analyzed, mi, last_received, response_times, result>>

\* get_thread_messages(thread_id): the thread's messages whose internalDate
\* parses ("if date:"), sorted by date.
GetThreadMessages(thread_id) ==
    LET Keep(m) == m.chat = thread_id /\ Parses(m.date)
    IN  StableSort(Filter(db, Keep), DateLess)

GmailPair(current_msg, next_msg) ==
    [received |-> current_msg.date,
     sent |-> next_msg.date,
     response_time |-> next_msg.date - current_msg.date,
     chat |-> current_msg.chat,
     rid |-> current_msg.id,
     sid |-> next_msg.id]

\* A scan that does not test current_is_received.
GmailIsResponseAnyCurrent(thread_messages, i) ==
    /\ thread_messages[i + 1].is_from_me
    /\ InWindow(thread_messages[i + 1].date)

\* "if current_is_received and next_is_sent" and the window test on
\* next_msg['date'], at position i of range(len(thread_messages) - 1).
GmailIsResponse(thread_messages, i) ==
    /\ ~thread_messages[i].is_from_me
    /\ thread_messages[i + 1].is_from_me
    /\ InWindow(thread_messages[i + 1].date)

\* for i in range(len(thread_messages) - 1): ... response_times.append(...)
GmailScan(thread_messages) ==
    LET positions == [k \in 1..(Len(thread_messages) - 1) |-> k]
        Hit(k) == GmailIsResponse(thread_messages, k)
        hits == Filter(positions, Hit)
    IN  [r \in 1..Len(hits) |->
            GmailPair(thread_messages[hits[r]], thread_messages[hits[r] + 1])]

\* A scan that forgets analyzed_threads.
GmailSkipThreadNever(thread_id) == FALSE

\* "if thread_id in analyzed_threads: continue"
GmailSkipThread(thread_id) == thread_id \in analyzed

\* One iteration of "for msg_ref in messages".
GmailThread ==
    /\ source = "gmail"
    /\ pc = "loop"
    /\ ci <= Len(messages)
    /\ LET thread_id == messages[ci].chat
           thread_messages == GetThreadMessages(thread_id)
       IN  IF GmailSkipThread(thread_id)
           THEN UNCHANGED <<analyzed, response_times>>
           ELSE /\ analyzed' = analyzed \cup {thread_id}
                /\ response_times' =
                       IF Len(thread_messages) < 2
                       THEN response_times
                       ELSE response_times \o GmailScan(thread_messages)
    /\ ci' = ci + 1
    /\ UNCHANGED <<inputs, pc, messages, chats,
                   chat_order, mi, last_received, result>>

GmailStats ==
    /\ source = "gmail"
    /\ pc = "loop"
    /\ ci > Len(messages)
    /\ result' = IF response_times # <<>>
                 THEN PopulatedStats(response_times, "me@gmail", start_date, end_date)
                 ELSE EmptyStats("me@gmail", start_date, end_date)
    /\ pc' = "done"
    /\ UNCHANGED <<inputs, messages, chats,
                   chat_order, analyzed, ci, mi, last_received, response_times>>

(* ------------------------------- Outlook ------------------------------ *)

\* _get_messages(lo, hi, "isDraft eq false"): sentDateTime ge lo and
\* sentDateTime le hi, $orderby sentDateTime desc, every page followed.
SentGreater(a, b) == a.sent > b.sent

OutlookGetMessages(lo, hi) ==
    LET Keep(m) == Parses(m.sent) /\ m.sent >= lo /\ m.sent <= hi
    IN  StableSort(Filter(db, Keep), SentGreater)

\* my_sent_messages = [msg for msg in sent_messages if self._is_sent_by_me(msg)]
IsSentByMe(m) == m.is_from_me

OutlookList ==
    /\ source = "outlook"
    /\ pc = "start"
    /\ fetch = "ok"
    /\ messages' = Filter(OutlookGetMessages(start_date - OutlookLookBack, end_date),
                          IsSentByMe)
    /\ ci' = 1
    /\ pc' = "loop"
    /\ UNCHANGED <<inputs, chats, chat_order,
                   analyzed, mi, last_received, response_times, result>>

\* _get_conversation_messages: $orderby receivedDateTime asc, $top 100; then
\* conversation_msgs.sort(key=receivedDateTime).
GetConversationMessages(conversation_id) ==
    LET Keep(m) == m.chat = conversation_id
    IN  Take(StableSort(Filter(db, Keep), DateLess), OutlookTop)

\* The sort key of a receivedDateTime that does not parse is datetime.min:
\* NoDate lies before every instant.
SortConversation(conversation_msgs) == StableSort(conversation_msgs, DateLess)

\* received_date is the current message's receivedDateTime and
\* sent_response_date the next message's sentDateTime.
OutlookPair(current_msg, next_msg) ==
    [received |-> current_msg.date,
     sent |-> next_msg.sent,
     response_time |-> next_msg.sent - current_msg.date,
     chat |-> current_msg.chat,
     rid |-> current_msg.id,
     sid |-> next_msg.id]

\* A scan that does not test current_is_received.
OutlookIsResponseAnyCurrent(conversation_msgs, i) ==
    /\ IsSentByMe(conversation_msgs[i + 1])
    /\ InWindow(conversation_msgs[i + 1].sent)


OutlookIsResponse(conversation_msgs, i) ==
    /\ ~IsSentByMe(conversation_msgs[i])
    /\ IsSentByMe(conversation_msgs[i + 1])
    /\ Parses(conversation_msgs[i].date)
    /\ Parses(conversation_msgs[i + 1].sent)
    /\ InWindow(conversation_msgs[i + 1].sent)

OutlookScan(conversation_msgs) ==
    LET positions == [k \in 1..(Len(conversation_msgs) - 1) |-> k]
        Hit(k) == OutlookIsResponse(conversation_msgs, k)
        hits == Filter(positions, Hit)
    IN  [r \in 1..Len(hits) |->
            OutlookPair(conversation_msgs[hits[r]], conversation_msgs[hits[r] + 1])]

\* A loop that forgets analyzed_conversations.
OutlookSkipConversationNever(conversation_id) == FALSE

\* "if not conversation_id or conversation_id in analyzed_conversations"
OutlookSkipConversation(conversation_id) == conversation_id \in analyzed

\* One iteration of "for sent_msg in my_sent_messages".
OutlookConversation ==
    /\ source = "outlook"
    /\ pc = "loop"
    /\ ci <= Len(messages)
    /\ LET sent_msg == messages[ci]
           conversation_id == sent_msg.chat
           conversation_msgs ==
               SortConversation(GetConversationMessages(conversation_id))
       IN  IF \/ ~Parses(sent_msg.sent)
              \/ sent_msg.sent < start_date
              \/ sent_msg.sent > end_date
           THEN UNCHANGED <<analyzed, response_times>>
           ELSE IF OutlookSkipConversation(conversation_id)
           THEN UNCHANGED <<analyzed, response_times>>
           ELSE /\ analyzed' = analyzed \cup {conversation_id}
                /\ response_times' =
                       IF Len(conversation_msgs) < 2
                       THEN response_times
                       ELSE response_times \o OutlookScan(conversation_msgs)
    /\ ci' = ci + 1
    /\ UNCHANGED <<inputs, pc, messages, chats,
                   chat_order, mi, last_received, result>>

OutlookStats ==
    /\ source = "outlook"
    /\ pc = "loop"
    /\ ci > Len(messages)
    /\ result' = IF response_times # <<>>
                 THEN PopulatedStats(response_times, "me@outlook", start_date, end_date)
                 ELSE EmptyStats("me@outlook", start_date, end_date)
    /\ pc' = "done"
    /\ UNCHANGED <<inputs, messages, chats,
                   chat_order, analyzed, ci, mi, last_received, response_times>>

(* ------------------------------- Todoist ------------------------------ *)

\* A completed item.
TaskKinds ==
    {[completed_at |-> c, added_at |-> a] :
        c \in Instants \cup {NoDate}, a \in Instants \cup {NoDate}}

\* A run of the Todoist analyzer before its first line.
TodoistStart ==
    \E n \in 0..MaxTasks :
    \E f \in [1..n -> TaskKinds] :
    \E s \in Instants : \E e \in Instants :
        /\ s <= e
        /\ source = "todoist"
        /\ db = <<>>
        /\ tasks = [i \in 1..n |->
                        [id |-> i, completed_at |-> f[i].completed_at,
                         added_at |-> f[i].added_at]]
        /\ start_date = s
        /\ end_date = e
        /\ pc = "start"
        /\ messages = <<>>
        /\ chats = <<>>
        /\ chat_order = <<>>
        /\ analyzed = {}
        /\ ci = 1
        /\ mi = 1
        /\ last_received = None
        /\ response_times = <<>>
        /\ result = None
        /\ first_pass = None
        /\ duration = <<0, 1>>
        /\ ClientIdle
        /\ MultiPeriodIdle
        /\ ReporterIdle

InitTodoist == TodoistStart /\ fetch = "ok"

\* get_completed_tasks(start_date, end_date): the items the API reports as
\* completed between since and until.
GetCompletedTasks(start, end) ==
    LET Keep(t) == t.completed_at = NoDate
                   \/ (start <= t.completed_at /\ t.completed_at <= end)
    IN  Filter(tasks, Keep)

\* "if latency_seconds > 0": only positive latencies are counted.
CountsLatency(latency_seconds) == latency_seconds > 0

\* The tasks the loop appends to task_details: both times parse and the
\* latency counts.
HasLatency(task) ==
    /\ task.completed_at # NoDate
    /\ task.added_at # NoDate
    /\ CountsLatency(task.completed_at - task.added_at)

TaskDetail(task) ==
    [completed_at |-> task.completed_at,
     created_at |-> task.added_at,
     latency_seconds |-> task.completed_at - task.added_at,
     tid |-> task.id]

TaskDetails(completed_tasks) ==
    LET counted == Filter(completed_tasks, HasLatency)
    IN  [k \in 1..Len(counted) |-> TaskDetail(counted[k])]

TaskLatencies(task_details) ==
    [k \in 1..Len(task_details) |-> task_details[k].latency_seconds]

\* analyze_completion_times from the fetched list on.
CompletionStats(completed_tasks, start, end) ==
    LET task_details == TaskDetails(completed_tasks)
        tasks_with_latency == Len(task_details)
        lat == TaskLatencies(task_details)
        total == SumSeq(lat)
        base == [total_completed |-> Len(completed_tasks),
                 tasks_with_latency |-> tasks_with_latency,
                 start_date |-> start,
                 end_date |-> end,
                 generated_at |-> "now"]
    IN  IF completed_tasks = <<>>
        THEN [total_completed |-> 0,
              message |-> "No completed tasks in the specified period",
              start_date |-> start,
              end_date |-> end,
              generated_at |-> "now"]
        ELSE IF tasks_with_latency > 0
        THEN base @@
             [avg_latency_seconds |-> <<total, tasks_with_latency>>,
              avg_latency_hours |-> <<total, tasks_with_latency * 3600>>,
              avg_latency_formatted |-> FormatDuration(total, tasks_with_latency),
              median_latency_seconds |-> MedianOf(lat),
              median_latency_formatted |-> FormatDuration(MedianOf(lat), 1),
              fastest_completion |-> MinOf(lat),
              slowest_completion |-> MaxOf(lat),
              task_details |-> task_details]
        ELSE base @@ [message |-> "tasks completed (latency data not available)"]

TodoistAnalyze ==
    /\ source = "todoist"
    /\ pc = "start"
    /\ fetch = "ok"
    /\ messages' = GetCompletedTasks(start_date, end_date)
    /\ result' = CompletionStats(messages', start_date, end_date)
    /\ pc' = "done"
    /\ UNCHANGED <<inputs, chats, chat_order, analyzed, ci, mi, last_received,
                   response_times>>

(* --------------------------- specification ---------------------------- *)

Init == InitMail \/ InitTodoist

Next ==
    \/ MessagesFetch
    \/ MessagesGroup
    \/ MessagesNextChat
    \/ MessagesWalk
    \/ MessagesStats
    \/ GmailList
    \/ GmailThread
    \/ GmailStats
    \/ OutlookList
    \/ OutlookConversation
    \/ OutlookStats
    \/ TodoistAnalyze

Spec == Init /\ [][Next]_vars

(* ------------------------- requests that fail ------------------------- *)

\* get_messages_in_timeframe raises (sqlite3.connect, execute): the except
\* clause of analyze_response_times returns {}.
MessagesFetchRaises ==
    /\ source = "messages"
    /\ pc = "start"
    /\ fetch = "error"
    /\ result' = <<>>
    /\ pc' = "done"
    /\ UNCHANGED <<inputs, messages, chats, chat_order, analyzed, ci, mi,
                   last_received, response_times>>

\* messages().list(...).execute() raises HttpError: "return {}".
GmailListRaises ==
    /\ source = "gmail"
    /\ pc = "start"
    /\ fetch = "error"
    /\ result' = <<>>
    /\ pc' = "done"
    /\ UNCHANGED <<inputs, messages, chats, chat_order, analyzed, ci, mi,
                   last_received, response_times>>

\* _get_messages: "if response.status_code != 200: ... break" on the first
\* page returns the empty list, and the analysis goes on with it.
OutlookListFails ==
    /\ source = "outlook"
    /\ pc = "start"
    /\ fetch = "error"
    /\ messages' = <<>>
    /\ ci' = 1
    /\ pc' = "loop"
    /\ UNCHANGED <<inputs, chats, chat_order, analyzed, mi, last_received,
                   response_times, result>>

\* get_completed_tasks: "except requests.exceptions.RequestException: ...
\* return []", and analyze_completion_times goes on with the empty list.
TodoistFetchRaises ==
    /\ source = "todoist"
    /\ pc = "start"
    /\ fetch = "error"
    /\ messages' = <<>>
    /\ result' = CompletionStats(<<>>, start_date, end_date)
    /\ pc' = "done"
    /\ UNCHANGED <<inputs, chats, chat_order, analyzed, ci, mi, last_received,
                   response_times>>

InitFetch == (MailStart \/ TodoistStart) /\ fetch \in FetchOutcomes

NextFetch ==
    \/ Next
    \/ MessagesFetchRaises
    \/ GmailListRaises
    \/ OutlookListFails
    \/ TodoistFetchRaises

SpecFetch == InitFetch /\ [][NextFetch]_vars

(* -------------------- events with unusable timestamps ----------------- *)

DirtyInstants == (0..MaxTick) \cup {NoDate}

\* A stored Gmail or Outlook message whose internalDate, receivedDateTime or
\* sentDateTime may be missing or unparseable.
DirtyKinds(src) ==
    {k \in [chat : Chats, date : DirtyInstants, sent : DirtyInstants,
            is_from_me : BOOLEAN] :
        IF src = "outlook" /\ k.is_from_me
        THEN ~Parses(k.sent) \/ ~Parses(k.date) \/ k.sent <= k.date
        ELSE k.sent = k.date}

DirtyMailStart ==
    \E src \in {"gmail", "outlook"} :
    \E n \in 0..MaxMsgs :
    \E f \in [1..n -> DirtyKinds(src)] :
    \E s \in 0..MaxTick : \E e \in 0..MaxTick :
        /\ s <= e
        /\ StoreOrdered(f)
        /\ source = src
        /\ db = WithId(f)
        /\ tasks = <<>>
        /\ start_date = s
        /\ end_date = e
        /\ pc = "start"
        /\ messages = <<>>
        /\ chats = <<>>
        /\ chat_order = <<>>
        /\ analyzed = {}
        /\ ci = 1
        /\ mi = 1
        /\ last_received = None
        /\ response_times = <<>>
        /\ result = None
        /\ first_pass = None
        /\ duration = <<0, 1>>
        /\ ClientIdle
        /\ MultiPeriodIdle
        /\ ReporterIdle

InitDirty == (DirtyMailStart \/ TodoistStart) /\ fetch = "ok"

NextDirty ==
    \/ GmailList
    \/ GmailThread
    \/ GmailStats
    \/ OutlookList
    \/ OutlookConversation
    \/ OutlookStats
    \/ TodoistAnalyze

SpecDirty == InitDirty /\ [][NextDirty]_vars

(* --------------------------- a repeated pass -------------------------- *)

\* The pass is run again over what the finished one fetched: the locals
\* (response_times, analyzed_threads, last_received) start afresh; the
\* Messages pass runs from the grouping or from the per-chat lists that the
\* first pass sorted in place; a Todoist analysis asks the API again.
RunAgain ==
    /\ pc = "done"
    /\ first_pass = None
    /\ first_pass' = [response_times |-> response_times, result |-> result]
    /\ \E restart \in {"group", "chat"} :
           pc' = IF source = "messages" THEN restart
                 ELSE IF source = "todoist" THEN "start" ELSE "loop"
    /\ ci' = 1
    /\ mi' = 1
    /\ analyzed' = {}
    /\ last_received' = None
    /\ response_times' = <<>>
    /\ result' = None
    /\ UNCHANGED <<source, db, tasks, start_date, end_date, found, fetch,
                   duration, reporter, client, now_utc, passes, messages,
                   chats, chat_order>>

NextTwice ==
    \/ Next
    \/ RunAgain

SpecTwice == Init /\ [][NextTwice]_vars

(* ---------------------------- format_duration ------------------------- *)

\* "seconds: float": durations are whole seconds or halves of a second (the
\* mean of two whole latencies).
Denominators == {1, 2}

\* A call format_duration(seconds) with seconds = n / d.
InitFormat ==
    \E d \in Denominators : \E n \in 0..(MaxSeconds * d) :
        /\ source = "format"
        /\ db = <<>>
        /\ tasks = <<>>
        /\ start_date = 0
        /\ end_date = 0
        /\ pc = "format"
        /\ messages = <<>>
        /\ chats = <<>>
        /\ chat_order = <<>>
        /\ analyzed = {}
        /\ ci = 1
        /\ mi = 1
        /\ last_received = None
        /\ response_times = <<>>
        /\ result = None
        /\ found = <<>>
        /\ fetch = "ok"
        /\ first_pass = None
        /\ duration = <<n, d>>
        /\ ClientIdle
        /\ MultiPeriodIdle
        /\ gist = None
        /\ gmail_stats = None
        /\ outlook_stats = None
        /\ messages_stats = None
        /\ report = None
        /\ rpc = "idle"

\* OutlookAnalyzer.format_duration, its own copy of the code.
OutlookFormatDuration(n, d) ==
    IF n < 60 * d THEN <<IntOf(n, d), "second", "s">>
    ELSE IF n < 3600 * d
         THEN LET minutes == IntOf(n, 60 * d)
              IN  <<minutes>> \o Plural("minute", minutes)
    ELSE IF n < 86400 * d
         THEN LET hours == IntOf(n, 3600 * d)
                  minutes == IntOf(n % (3600 * d), 60 * d)
              IN  <<hours>> \o Plural("hour", hours) \o <<minutes, "min">>
    ELSE LET days == IntOf(n, 86400 * d)
             hours == IntOf(n % (86400 * d), 3600 * d)
         IN  <<days>> \o Plural("day", days) \o <<hours>> \o Plural("hour", hours)

\* MessagesAnalyzer.format_duration, its own copy of the code.
MessagesFormatDuration(n, d) ==
    IF n < 60 * d THEN <<IntOf(n, d), "second", "s">>
    ELSE IF n < 3600 * d
         THEN LET minutes == IntOf(n, 60 * d)
              IN  <<minutes>> \o Plural("minute", minutes)
    ELSE IF n < 86400 * d
         THEN LET hours == IntOf(n, 3600 * d)
                  minutes == IntOf(n % (3600 * d), 60 * d)
              IN  <<hours>> \o Plural("hour", hours) \o <<minutes, "min">>
    ELSE LET days == IntOf(n, 86400 * d)
             hours == IntOf(n % (86400 * d), 3600 * d)
         IN  <<days>> \o Plural("day", days) \o <<hours>> \o Plural("hour", hours)

\* TodoistAnalyzer.format_duration, its own copy of the code.
\* A copy that knows minutes only.
TodoistFormatDurationInMinutes(n, d) ==
    <<IntOf(n, 60 * d)>> \o Plural("minute", IntOf(n, 60 * d))

TodoistFormatDuration(n, d) ==
    IF n < 60 * d THEN <<IntOf(n, d), "second", "s">>
    ELSE IF n < 3600 * d
         THEN LET minutes == IntOf(n, 60 * d)
              IN  <<minutes>> \o Plural("minute", minutes)
    ELSE IF n < 86400 * d
         THEN LET hours == IntOf(n, 3600 * d)
                  minutes == IntOf(n % (3600 * d), 60 * d)
              IN  <<hours>> \o Plural("hour", hours) \o <<minutes, "min">>
    ELSE LET days == IntOf(n, 86400 * d)
             hours == IntOf(n % (86400 * d), 3600 * d)
         IN  <<days>> \o Plural("day", days) \o <<hours>> \o Plural("hour", hours)

FormatDurationCall ==
    /\ pc = "format"
    /\ result' = FormatDuration(duration[1], duration[2])
    /\ pc' = "formatted"
    /\ UNCHANGED <<inputs, messages, chats, chat_order, analyzed, ci, mi,
                   last_received, response_times>>

SpecFormat == InitFormat /\ [][FormatDurationCall]_vars

(* ------------------- runs that end in several pairs ------------------- *)

\* The latencies of the runs below, in seconds.
StatLatencies == {10, 20, 30, 40}

\* The last instant of their window.
StatsWindowEnd == 4 * 10

\* A store of n conversations: conversation c is one received message at 0
\* and the user's reply lat[c] seconds later.
StatsStore(n, lat) ==
    [k \in 1..(2 * n) |->
        LET c == (k + 1) \div 2
        IN  IF k % 2 = 1
            THEN [chat |-> c, date |-> 0, sent |-> 0, is_from_me |-> FALSE]
            ELSE [chat |-> c, date |-> lat[c], sent |-> lat[c],
                  is_from_me |-> TRUE]]

InitStats ==
    \E src \in MailSources \cup {"todoist"} :
    \E n \in 0..MaxPairs :
    \E lat \in [1..n -> StatLatencies] :
        /\ source = src
        /\ db = IF src = "todoist" THEN <<>> ELSE WithId(StatsStore(n, lat))
        /\ tasks = IF src = "todoist"
                   THEN [i \in 1..n |->
                            [id |-> i, completed_at |-> lat[i], added_at |-> 0]]
                   ELSE <<>>
        /\ start_date = 0
        /\ end_date = StatsWindowEnd
        /\ pc = "start"
        /\ messages = <<>>
        /\ chats = <<>>
        /\ chat_order = <<>>
        /\ analyzed = {}
        /\ ci = 1
        /\ mi = 1
        /\ last_received = None
        /\ response_times = <<>>
        /\ result = None
        /\ fetch = "ok"
        /\ first_pass = None
        /\ duration = <<0, 1>>
        /\ ClientIdle
        /\ MultiPeriodIdle
        /\ ReporterIdle

SpecStats == InitStats /\ [][Next]_vars

(* ----------------------- the two-conversation day --------------------- *)

\* A time of day, in seconds after midnight.
Clock(hours, minutes) == hours * 3600 + minutes * 60

\* Conversation A: received 09:00, answered 09:05; conversation B: received
\* 08:00, answered 20:00; both on the day that starts at midnight.
ScenarioConversation(chat, received, answered) ==
    <<[chat |-> chat, date |-> received, sent |-> received, is_from_me |-> FALSE],
      [chat |-> chat, date |-> answered, sent |-> answered, is_from_me |-> TRUE]>>

ScenarioStore(midnight, a_first) ==
    LET a == ScenarioConversation(IF a_first THEN 1 ELSE 2,
                                  midnight + Clock(9, 0), midnight + Clock(9, 5))
        b == ScenarioConversation(IF a_first THEN 2 ELSE 1,
                                  midnight + Clock(8, 0), midnight + Clock(20, 0))
    IN  IF a_first THEN a \o b ELSE b \o a

\* The same two latencies as Todoist tasks: created at the received time,
\* completed at the answer.
ScenarioTasks(midnight, a_first) ==
    LET store == ScenarioStore(midnight, a_first)
    IN  [i \in 1..2 |->
            [id |-> i, completed_at |-> store[2 * i].date,
             added_at |-> store[2 * i - 1].date]]

InitScenario ==
    \E src \in MailSources \cup {"todoist"} :
    \E day \in 0..MaxDay :
    \E a_first \in BOOLEAN :
    \E last \in {86399, 86400} :
        /\ source = src
        /\ db = IF src = "todoist" THEN <<>>
                ELSE WithId(ScenarioStore(day * 86400, a_first))
        /\ tasks = IF src = "todoist" THEN ScenarioTasks(day * 86400, a_first)
                   ELSE <<>>
        /\ start_date = day * 86400
        /\ end_date = day * 86400 + last
        /\ pc = "start"
        /\ messages = <<>>
        /\ chats = <<>>
        /\ chat_order = <<>>
        /\ analyzed = {}
        /\ ci = 1
        /\ mi = 1
        /\ last_received = None
        /\ response_times = <<>>
        /\ result = None
        /\ fetch = "ok"
        /\ first_pass = None
        /\ duration = <<0, 1>>
        /\ ClientIdle
        /\ MultiPeriodIdle
        /\ ReporterIdle

SpecScenario == InitScenario /\ [][Next]_vars

(* ------------------------------ the report ---------------------------- *)

\* The three periods of analyze_multi_period, narrowest first.
Periods == <<"last_24h", "last_7d", "last_28d">>

PeriodRank(p) == CHOOSE k \in 1..Len(Periods) : Periods[k] = p

ReportLatencies == {3599, 3600, 86399, 86400}

\* A pair an analyzer finds: its latency and the narrowest period its reply
\* falls in (a reply of the previous day also lies in the last 7 and the last
\* 28 days); Messages pairs carry their service.
MailFound ==
    {[response_time |-> l, period |-> Periods[k]] :
        l \in ReportLatencies, k \in 1..Len(Periods)}

MessagesFound ==
    {[response_time |-> l, period |-> Periods[k], service |-> sv] :
        l \in ReportLatencies, k \in 1..Len(Periods), sv \in {"iMessage", "SMS"}}

FoundLists(kinds) == UNION {[1..n -> kinds] : n \in 0..MaxFound}

\* The pairs analyze_response_times counts for period p.
PairsOfPeriod(pairs, p) ==
    LET Keep(rt) == PeriodRank(rt.period) <= PeriodRank(p)
    IN  Filter(pairs, Keep)

\* Messages and Todoist report the previous calendar day (Pacific Time).
PreviousDaySources == {"messages", "todoist"}

PeriodName(src, p) ==
    IF p = "last_24h"
    THEN (IF src \in PreviousDaySources THEN "Previous Day (PT)" ELSE "Last 24 Hours")
    ELSE IF p = "last_7d" THEN "Last 7 Days" ELSE "Last 28 Days"

PeriodStart(src, p) ==
    IF p = "last_24h"
    THEN (IF src \in PreviousDaySources THEN "yesterday 00:00:00 PT"
          ELSE "now - 24h")
    ELSE IF p = "last_7d" THEN "now - 7d" ELSE "now - 28d"

PeriodEnd(src, p) ==
    IF p = "last_24h" /\ src \in PreviousDaySources THEN "yesterday 23:59:59 PT"
    ELSE "now"

AddressOf(src) ==
    IF src = "gmail" THEN "me@gmail"
    ELSE IF src = "outlook" THEN "me@outlook" ELSE "Messages"

\* stats = self.analyze_response_times(start_date=..., end_date=...);
\* stats['period_name'] = ...
PeriodStats(src, pairs, p) ==
    LET rts == PairsOfPeriod(pairs, p)
        start == PeriodStart(src, p)
        end == PeriodEnd(src, p)
        stats == IF rts = <<>> THEN EmptyStats(AddressOf(src), start, end)
                 ELSE IF src = "messages"
                 THEN MessagesPopulatedStats(rts, start, end)
                 ELSE PopulatedStats(rts, AddressOf(src), start, end)
    IN  stats @@ [period_name |-> PeriodName(src, p)]

\* The dict the return statement of analyze_multi_period builds, with
\* generated_at the instant captured at the start of the call.
MultiPeriodDict(src, pairs) ==
    [last_24h |-> PeriodStats(src, pairs, "last_24h"),
     last_7d |-> PeriodStats(src, pairs, "last_7d"),
     last_28d |-> PeriodStats(src, pairs, "last_28d"),
     email_address |-> AddressOf(src),
     generated_at |-> "now"]

\* An exception that leaves the call.
Raised(exception) == [raised |-> exception]

\* analyze_multi_period() of a mail source that finds these pairs.  The
\* Messages analyzer captures now_utc and returns 'generated_at': now, a name
\* that is not defined: the return statement raises NameError.
AnalyzeMultiPeriod(src, pairs) ==
    IF src = "messages" THEN Raised("NameError")
    ELSE MultiPeriodDict(src, pairs)

\* A completed item of the last 28 days with the narrowest period its
\* completion falls in.
TodoistFound ==
    {[completed_at |-> 1, added_at |-> a, period |-> Periods[k]] :
        a \in {0, 1, NoDate}, k \in 1..Len(Periods)}

\* stats = self.analyze_completion_times(start_date=..., end_date=...);
\* stats['period_name'] = ...
TodoistPeriodStats(completed, p) ==
    LET Keep(t) == PeriodRank(t.period) <= PeriodRank(p)
    IN  CompletionStats(Filter(completed, Keep), PeriodStart("todoist", p),
                        PeriodEnd("todoist", p))
        @@ [period_name |-> PeriodName("todoist", p)]

\* TodoistAnalyzer.analyze_multi_period()
TodoistAnalyzeMultiPeriod(completed) ==
    [last_24h |-> TodoistPeriodStats(completed, "last_24h"),
     last_7d |-> TodoistPeriodStats(completed, "last_7d"),
     last_28d |-> TodoistPeriodStats(completed, "last_28d"),
     generated_at |-> "now"]

\* A call of analyze_multi_period on the analyzer of the run.
InitMultiPeriod ==
    \E src \in MailSources \cup {"todoist"} :
    \E f \in FoundLists(IF src = "todoist" THEN TodoistFound
                       ELSE IF src = "messages" THEN MessagesFound
                       ELSE MailFound) :
        /\ source = src
        /\ db = <<>>
        /\ tasks = IF src = "todoist"
                   THEN [i \in DOMAIN f |->
                            [id |-> i, completed_at |-> f[i].completed_at,
                             added_at |-> f[i].added_at, period |-> f[i].period]]
                   ELSE <<>>
        /\ found = IF src = "todoist" THEN <<>> ELSE f
        /\ fetch = "ok"
        /\ first_pass = None
        /\ duration = <<0, 1>>
        /\ ClientIdle
        /\ MultiPeriodIdle
        /\ start_date = 0
        /\ end_date = 0
        /\ pc = "multi"
        /\ messages = <<>>
        /\ chats = <<>>
        /\ chat_order = <<>>
        /\ analyzed = {}
        /\ ci = 1
        /\ mi = 1
        /\ last_received = None
        /\ response_times = <<>>
        /\ result = None
        /\ gist = None
        /\ gmail_stats = None
        /\ outlook_stats = None
        /\ messages_stats = None
        /\ report = None
        /\ rpc = "idle"

AnalyzeMultiPeriodCall ==
    /\ pc = "multi"
    /\ LET outcome == IF source = "todoist"
                      THEN TodoistAnalyzeMultiPeriod(tasks)
                      ELSE AnalyzeMultiPeriod(source, found)
       IN  /\ result' = outcome
           /\ pc' = IF "raised" \in DOMAIN outcome THEN "raised" ELSE "returned"
    /\ UNCHANGED <<inputs, messages, chats, chat_order, analyzed, ci, mi,
                   last_received, response_times>>

SpecMultiPeriod == InitMultiPeriod /\ [][AnalyzeMultiPeriodCall]_vars

\* value.isoformat()
IsoFormat(t) == <<"iso", t>>

\* serialize_stats(stats): response_details is skipped, the three datetimes
\* become text, every other key is copied (a period's dict nests no dict).
SerializeStats(stats) ==
    [key \in DOMAIN stats \ {"response_details"} |->
        IF key \in {"start_date", "end_date", "generated_at"}
        THEN IsoFormat(stats[key])
        ELSE stats[key]]

\* analyze_and_format_stats(): the document the Messages client uploads.
AnalyzeAndFormatStats(multi_stats) ==
    [last_24h |-> SerializeStats(multi_stats.last_24h),
     last_7d |-> SerializeStats(multi_stats.last_7d),
     last_28d |-> SerializeStats(multi_stats.last_28d),
     email_address |-> "Messages",
     generated_at |-> IsoFormat(multi_stats.generated_at),
     client_version |-> "1.0.0"]

\* No analyzer run is in progress.
AnalysisIdle ==
    /\ source = "report"
    /\ db = <<>>
    /\ tasks = <<>>
    /\ start_date = 0
    /\ end_date = 0
    /\ pc = "idle"
    /\ messages = <<>>
    /\ chats = <<>>
    /\ chat_order = <<>>
    /\ analyzed = {}
    /\ ci = 1
    /\ mi = 1
    /\ last_received = None
    /\ response_times = <<>>
    /\ result = None
    /\ found = <<>>
    /\ fetch = "ok"
    /\ first_pass = None
    /\ duration = <<0, 1>>
    /\ ClientIdle
    /\ MultiPeriodIdle

\* The reporter with the analyses of Gmail and (if enabled) Outlook in hand
\* and, if a Messages client has uploaded one, a document in the gist.
InitReport ==
    \E g \in FoundLists(MailFound) :
    \E o \in FoundLists(MailFound) :
    \E m \in FoundLists(MessagesFound) :
    \E outlook_enabled \in BOOLEAN :
    \E uploaded \in BOOLEAN :
        /\ AnalysisIdle
        /\ gmail_stats = MultiPeriodDict("gmail", g)
        /\ outlook_stats = IF outlook_enabled
                           THEN MultiPeriodDict("outlook", o)
                           ELSE None
        /\ gist = IF uploaded
                  THEN AnalyzeAndFormatStats(MultiPeriodDict("messages", m))
                  ELSE None
        /\ messages_stats = None
        /\ report = None
        /\ rpc = "download"

\* What requests.get(url) of the gist does: a 200 response, another status,
\* or an exception.
GistResponses == {"200", "404", "exception"}

\* download_messages_stats(): json.loads of the gist's messages_stats.json;
\* None when there is no gist id or no such file, on any other status and on
\* any exception.
DownloadedStats(response) == IF response = "200" THEN gist ELSE None

DownloadMessagesStats ==
    /\ rpc = "download"
    /\ \E response \in GistResponses :
           messages_stats' = DownloadedStats(response)
    /\ rpc' = "html"
    /\ UNCHANGED <<analysis, gist, gmail_stats, outlook_stats, report>>

\* The empty dict {}.
EmptyDict == <<>>

\* d.get(key, default)
Get(d, key, default) == IF key \in DOMAIN d THEN d[key] ELSE default

\* The truth value of a dict or None.
Truthy(d) == d # None /\ DOMAIN d # {}

\* stats.get(period, {}) if stats else {}
PeriodOf(stats, p) == IF Truthy(stats) THEN Get(stats, p, EmptyDict) ELSE EmptyDict

\* A sum that leaves Messages out.
CombinedTotalOfMail(gmail_data, outlook_data, messages_data) ==
    Get(gmail_data, "total_responses", 0)
    + Get(outlook_data, "total_responses", 0)

\* The sum of total_responses over the three sources.
CombinedTotal(gmail_data, outlook_data, messages_data) ==
    Get(gmail_data, "total_responses", 0)
    + Get(outlook_data, "total_responses", 0)
    + Get(messages_data, "total_responses", 0)

\* The concatenation of the three response_details lists.
AllResponseTimes(gmail_data, outlook_data, messages_data) ==
    Get(gmail_data, "response_details", <<>>)
    \o Get(outlook_data, "response_details", <<>>)
    \o Get(messages_data, "response_details", <<>>)

\* sum(1 for rt in all_response_times_24h if lo <= seconds < hi)
CountUnder(rts, limit) ==
    Cardinality({k \in 1..Len(rts) : rts[k].response_time < limit})

CountFrom(rts, limit) ==
    Cardinality({k \in 1..Len(rts) : rts[k].response_time >= limit})

\* The combined average, or "N/A" when no details are at hand.
CombinedAverage(rts) ==
    IF rts # <<>> THEN FormatDuration(SumSeq(Latencies(rts)), Len(rts))
    ELSE <<"N/A">>

\* split('@')[1] of an address with an '@', else the default.
DomainOf(address, default) ==
    IF address = "me@gmail" THEN "gmail"
    ELSE IF address = "me@outlook" THEN "outlook" ELSE default

\* create_account_breakout: one section per source with responses, Messages
\* first.
CreateAccountBreakout(gmail_data, outlook_data, messages_data) ==
    (IF DOMAIN messages_data # {} /\ Get(messages_data, "total_responses", 0) > 0
     THEN <<[account |-> "Messages",
             imessage_count |-> Get(messages_data, "imessage_count", 0),
             sms_count |-> Get(messages_data, "sms_count", 0),
             responses |-> messages_data["total_responses"],
             average |-> messages_data["avg_response_time_formatted"]]>>
     ELSE <<>>)
    \o
    (IF Get(gmail_data, "total_responses", 0) > 0
     THEN <<[account |-> DomainOf(Get(gmail_data, "email_address", ""), "Gmail"),
             responses |-> gmail_data["total_responses"],
             average |-> gmail_data["avg_response_time_formatted"]]>>
     ELSE <<>>)
    \o
    (IF DOMAIN outlook_data # {} /\ Get(outlook_data, "total_responses", 0) > 0
     THEN <<[account |-> DomainOf(Get(outlook_data, "email_address", ""), "Outlook"),
             responses |-> outlook_data["total_responses"],
             average |-> outlook_data["avg_response_time_formatted"]]>>
     ELSE <<>>)

\* One "rolling-period" block.
RollingPeriod(header, gmail_data, outlook_data, messages_data) ==
    [period_header |-> header,
     total_responses |-> CombinedTotal(gmail_data, outlook_data, messages_data),
     combined_average |->
         CombinedAverage(AllResponseTimes(gmail_data, outlook_data, messages_data)),
     breakout |-> CreateAccountBreakout(gmail_data, outlook_data, messages_data)]

\* A displayed count with its whole percentage of the total.
WithPercent(count, total) ==
    [count |-> count, percent |-> IF total > 0 THEN (count * 100) \div total ELSE 0]

\* generate_html_report(gmail_stats, outlook_stats=..., messages_stats=...):
\* the report as the values its HTML displays.
HtmlReport(gmail, outlook, msgs) ==
    LET gmail_24h == Get(gmail, "last_24h", EmptyDict)
        gmail_7d == Get(gmail, "last_7d", EmptyDict)
        gmail_28d == Get(gmail, "last_28d", EmptyDict)
        outlook_24h == PeriodOf(outlook, "last_24h")
        outlook_7d == PeriodOf(outlook, "last_7d")
        outlook_28d == PeriodOf(outlook, "last_28d")
        messages_24h == PeriodOf(msgs, "last_24h")
        messages_7d == PeriodOf(msgs, "last_7d")
        messages_28d == PeriodOf(msgs, "last_28d")
        combined_24h_total == CombinedTotal(gmail_24h, outlook_24h, messages_24h)
        combined_7d_total == CombinedTotal(gmail_7d, outlook_7d, messages_7d)
        combined_28d_total == CombinedTotal(gmail_28d, outlook_28d, messages_28d)
        all_response_times_24h ==
            AllResponseTimes(gmail_24h, outlook_24h, messages_24h)
        combined_under_1h == CountUnder(all_response_times_24h, 3600)
        combined_under_24h == CountUnder(all_response_times_24h, 86400)
        combined_over_24h == CountFrom(all_response_times_24h, 86400)
    IN  IF combined_24h_total = 0
        THEN [title |-> "Email Response Time Report",
              body |-> "No responses in the last 24 hours"]
        ELSE [title |-> "Daily Response Report",
              total_responses |-> combined_24h_total,
              combined_average |-> CombinedAverage(all_response_times_24h),
              breakout |->
                  CreateAccountBreakout(gmail_24h, outlook_24h, messages_24h),
              under_1_hour |-> WithPercent(combined_under_1h, combined_24h_total),
              from_1_to_24_hours |->
                  WithPercent(combined_under_24h - combined_under_1h,
                              combined_24h_total),
              over_24_hours |-> WithPercent(combined_over_24h, combined_24h_total),
              rolling_averages |->
                  (IF combined_7d_total > 0
                   THEN <<RollingPeriod("Last 7 Days", gmail_7d, outlook_7d,
                                        messages_7d)>>
                   ELSE <<>>)
                  \o
                  (IF combined_28d_total > 0
                   THEN <<RollingPeriod("Last 28 Days", gmail_28d, outlook_28d,
                                        messages_28d)>>
                   ELSE <<>>)]

GenerateHtmlReport ==
    /\ rpc = "html"
    /\ report' = HtmlReport(gmail_stats, outlook_stats, messages_stats)
    /\ rpc' = "done"
    /\ UNCHANGED <<analysis, gist, gmail_stats, outlook_stats, messages_stats>>

\* generate_and_send_report() from its first line: the work Gmail account
\* has these pairs, the gist holds this document.
InitSend ==
    \E g \in FoundLists(MailFound) :
    \E m \in FoundLists(MessagesFound) :
    \E uploaded \in BOOLEAN :
        /\ source = "report"
        /\ db = <<>>
        /\ tasks = <<>>
        /\ start_date = 0
        /\ end_date = 0
        /\ pc = "idle"
        /\ messages = <<>>
        /\ chats = <<>>
        /\ chat_order = <<>>
        /\ analyzed = {}
        /\ ci = 1
        /\ mi = 1
        /\ last_received = None
        /\ response_times = <<>>
        /\ result = None
        /\ found = g
        /\ fetch = "ok"
        /\ first_pass = None
        /\ duration = <<0, 1>>
        /\ ClientIdle
        /\ MultiPeriodIdle
        /\ gist = IF uploaded
                  THEN AnalyzeAndFormatStats(MultiPeriodDict("messages", m))
                  ELSE None
        /\ gmail_stats = None
        /\ outlook_stats = None
        /\ messages_stats = None
        /\ report = None
        /\ rpc = "gmail"

\* gmail_stats = self.gmail_analyzer.analyze_multi_period();
\* "if not gmail_stats: return False"
SendAnalyzeGmail ==
    /\ rpc = "gmail"
    /\ gmail_stats' = AnalyzeMultiPeriod("gmail", found)
    /\ rpc' = IF Truthy(gmail_stats') THEN "personal_gmail" ELSE "returned False"
    /\ UNCHANGED <<analysis, gist, outlook_stats, messages_stats, report>>

\* The attributes class Config defines.
ConfigAttributes ==
    {"REPORT_EMAIL", "GMAIL_ADDRESS", "ANALYSIS_DAYS", "REPORT_TIME", "SCOPES",
     "CREDENTIALS_FILE", "TOKEN_FILE", "OUTLOOK_ENABLED", "OUTLOOK_CLIENT_ID",
     "OUTLOOK_TENANT_ID", "OUTLOOK_SCOPES", "OUTLOOK_TOKEN_FILE"}

\* "if Config.PERSONAL_GMAIL_ENABLED and self.personal_gmail_analyzer:" -
\* the read of an attribute Config does not define raises AttributeError,
\* outside every try block of generate_and_send_report.
SendPersonalGmail ==
    /\ rpc = "personal_gmail"
    /\ rpc' = IF "PERSONAL_GMAIL_ENABLED" \in ConfigAttributes
              THEN "outlook" ELSE "raised AttributeError"
    /\ UNCHANGED <<analysis, gist, gmail_stats, outlook_stats, messages_stats,
                   report>>

NextSend ==
    \/ SendAnalyzeGmail
    \/ SendPersonalGmail

SpecSend == InitSend /\ [][NextSend]_vars

NextReport ==
    \/ DownloadMessagesStats
    \/ GenerateHtmlReport

SpecReport == InitReport /\ [][NextReport]_vars

(* ------------------ reports of windows that disagree ------------------ *)

\* The pairs of the reports below: one hour of latency, in any period.
RollingMailFound ==
    {[response_time |-> 3600, period |-> Periods[k]] : k \in 1..Len(Periods)}

RollingMessagesFound ==
    {[response_time |-> 3600, period |-> Periods[k], service |-> "iMessage"] :
        k \in 1..Len(Periods)}

\* What analyze_multi_period makes of a call of analyze_response_times that
\* ended in "except HttpError: return {}": the empty dict with its
\* period_name.
FailedStats(src, p) == [period_name |-> PeriodName(src, p)]

\* The Gmail dict when the calls for the periods in failed raised HttpError.
GmailDictWithFailures(pairs, failed) ==
    [key \in DOMAIN MultiPeriodDict("gmail", pairs) |->
        IF key \in failed THEN FailedStats("gmail", key)
        ELSE IF key = "email_address" /\ "last_24h" \in failed THEN ""
        ELSE MultiPeriodDict("gmail", pairs)[key]]

\* generate_html_report is about to be called: any of Gmail's three calls
\* may have failed, so that a wider window can count less than a narrower.
InitRolling ==
    \E g \in FoundLists(RollingMailFound) :
    \E failed \in SUBSET {Periods[k] : k \in 1..Len(Periods)} :
    \E o \in FoundLists(RollingMailFound) :
    \E m \in FoundLists(RollingMessagesFound) :
    \E outlook_enabled \in BOOLEAN :
    \E downloaded \in BOOLEAN :
        /\ AnalysisIdle
        /\ gmail_stats = GmailDictWithFailures(g, failed)
        /\ outlook_stats = IF outlook_enabled
                           THEN MultiPeriodDict("outlook", o)
                           ELSE None
        /\ gist = IF downloaded
                  THEN AnalyzeAndFormatStats(MultiPeriodDict("messages", m))
                  ELSE None
        /\ messages_stats = gist
        /\ report = None
        /\ rpc = "html"

SpecRolling == InitRolling /\ [][GenerateHtmlReport]_vars

(* ------------------- the three windows of Messages -------------------- *)

\* A midnight (Pacific Time) late enough for every window to start after the
\* base instant.
WindowsBase == 36 * 86400

\* How long after that midnight analyze_multi_period is called.
NowOffsets == {0, 1, 86399}

\* "yesterday_pt.replace(hour=0, minute=0, second=0, microsecond=0)"
PreviousDayStart(now) == DayOf(now) - 86400

\* "yesterday_pt.replace(hour=23, minute=59, second=59, microsecond=999999)",
\* in whole seconds.
PreviousDayEnd(now) == DayOf(now) - 1

\* "now_utc - timedelta(days=7)", "now_utc - timedelta(days=28)"
RollingDays(p) == IF p = "last_7d" THEN 7 ELSE 28

RollingStart(now, p) == now - RollingDays(p) * 86400

\* The dates of the stored messages: at and next to the ends of the three
\* windows and of the fetch of the 7-day window.
WindowInstants(now) ==
    {RollingStart(now, "last_28d") - 1, RollingStart(now, "last_28d"),
     RollingStart(now, "last_7d") - MessagesLookBack - 1,
     RollingStart(now, "last_7d") - MessagesLookBack,
     RollingStart(now, "last_7d") - 1, RollingStart(now, "last_7d"),
     PreviousDayStart(now) - 1, PreviousDayStart(now),
     PreviousDayEnd(now), PreviousDayEnd(now) + 1, now}

WindowKinds(now) ==
    {[chat |-> 1, date |-> t, sent |-> t, is_from_me |-> b] :
        t \in WindowInstants(now), b \in BOOLEAN}

\* MessagesAnalyzer.analyze_multi_period() on one database, at its first
\* call of analyze_response_times.
InitWindows ==
    \E off \in NowOffsets :
    \E n \in 0..MaxWindowMsgs :
    \E f \in [1..n -> WindowKinds(WindowsBase + off)] :
        /\ StoreOrdered(f)
        /\ source = "messages"
        /\ db = WithId(f)
        /\ tasks = <<>>
        /\ now_utc = WindowsBase + off
        /\ passes = <<>>
        /\ start_date = PreviousDayStart(WindowsBase + off)
        /\ end_date = PreviousDayEnd(WindowsBase + off)
        /\ pc = "start"
        /\ messages = <<>>
        /\ chats = <<>>
        /\ chat_order = <<>>
        /\ analyzed = {}
        /\ ci = 1
        /\ mi = 1
        /\ last_received = None
        /\ response_times = <<>>
        /\ result = None
        /\ fetch = "ok"
        /\ first_pass = None
        /\ duration = <<0, 1>>
        /\ ClientIdle
        /\ ReporterIdle

\* "stats_x['period_name'] = ..." after a call of analyze_response_times, and
\* the next call; after the third, the return statement, which reads the
\* undefined name now.
MultiPeriodNextPass ==
    /\ source = "messages"
    /\ pc = "done"
    /\ Len(passes) < Len(Periods)
    /\ LET p == Periods[Len(passes) + 1]
       IN  passes' = Append(passes,
               [period |-> p, start_date |-> start_date, end_date |-> end_date,
                response_times |-> response_times,
                stats |-> result @@ [period_name |-> PeriodName("messages", p)]])
    /\ IF Len(passes) + 1 < Len(Periods)
       THEN /\ start_date' = RollingStart(now_utc, Periods[Len(passes) + 2])
            /\ end_date' = now_utc
            /\ pc' = "start"
            /\ messages' = <<>>
            /\ chats' = <<>>
            /\ chat_order' = <<>>
            /\ ci' = 1
            /\ mi' = 1
            /\ last_received' = None
            /\ response_times' = <<>>
            /\ result' = None
       ELSE /\ result' = Raised("NameError")
            /\ pc' = "raised"
            /\ UNCHANGED <<start_date, end_date, messages, chats, chat_order,
                           ci, mi, last_received, response_times>>
    /\ UNCHANGED <<source, db, tasks, analyzed, found, fetch, first_pass,
                   duration, reporter, client, now_utc>>

NextWindows ==
    \/ MessagesFetch
    \/ MessagesGroup
    \/ MessagesNextChat
    \/ MessagesWalk
    \/ MessagesStats
    \/ MultiPeriodNextPass

SpecWindows == InitWindows /\ [][NextWindows]_vars

(* -------------------------- the Messages client ----------------------- *)

\* The status codes of api.github.com: 200 for an update, 201 for a
\* creation, 404 for a gist that does not exist, 500 for any other failure.
StatusCodes(method, id) ==
    IF method = "POST" THEN {201, 500}
    ELSE IF id \in gists THEN {200, 500} ELSE {404}

\* "if response.status_code in [200, 201]"
UploadSucceeded(status) == status \in {200, 201}

\* The id GitHub gives a new gist.
NewGistId ==
    CHOOSE i \in 1..(MaxGists + MaxRuns + 1) :
        /\ i \notin gists \cup {gist_file}
        /\ \A j \in 1..(i - 1) : j \in gists \cup {gist_file}

\* A write of the file that does not depend on the outcome of the run.
FileWrittenAlways(success, id) == id

\* The file .messages_gist_id after run: "f.write(gist_id)" is reached only
\* when nothing before it in the try block raised.
FileAfterRun(success, id) == IF success THEN id ELSE gist_file

\* "return 0 if success else 1"
ExitCode(success) == IF success THEN 0 ELSE 1

\* A call of main() in a directory whose file .messages_gist_id holds an id
\* or is missing, or a call of upload_to_gist(stats) on a client constructed
\* as main constructs it.
InitClient ==
    \E e \in {"main", "upload_to_gist"} :
    \E m \in FoundLists(MessagesFound) :
    \E stored \in {NoGistId} \cup (1..MaxGists) :
    \E remote \in SUBSET (1..MaxGists) :
        /\ source = "client"
        /\ db = <<>>
        /\ tasks = <<>>
        /\ start_date = 0
        /\ end_date = 0
        /\ pc = "idle"
        /\ messages = <<>>
        /\ chats = <<>>
        /\ chat_order = <<>>
        /\ analyzed = {}
        /\ ci = 1
        /\ mi = 1
        /\ last_received = None
        /\ response_times = <<>>
        /\ result = None
        /\ found = m
        /\ fetch = "ok"
        /\ first_pass = None
        /\ duration = <<0, 1>>
        /\ gist = None
        /\ gmail_stats = None
        /\ outlook_stats = None
        /\ messages_stats = None
        /\ report = None
        /\ rpc = "idle"
        /\ entry = e
        /\ gist_file = stored
        /\ gists = remote
        /\ requests = <<>>
        /\ exit_code = NoExit
        /\ runs = 0
        /\ MultiPeriodIdle
        /\ IF e = "main"
           THEN /\ gist_id = NoGistId
                /\ document = None
                /\ cpc = "main"
           ELSE /\ gist_id = stored
                /\ document = AnalyzeAndFormatStats(MultiPeriodDict("messages", m))
                /\ cpc = "upload"

\* main(): without GITHUB_TOKEN it returns 1; otherwise it reads the file and
\* constructs the client with the id found there.
ClientMain ==
    /\ entry = "main"
    /\ cpc \in {"main", "exited"}
    /\ runs < MaxRuns
    /\ runs' = runs + 1
    /\ document' = None
    /\ \E github_token \in BOOLEAN :
           IF ~github_token
           THEN /\ exit_code' = 1
                /\ cpc' = "exited"
                /\ UNCHANGED gist_id
           ELSE /\ gist_id' = gist_file
                /\ exit_code' = NoExit
                /\ cpc' = "analyze"
    /\ UNCHANGED <<analysis_run, reporter, entry, gist_file, requests, gists>>

\* run(): "stats = self.analyze_and_format_stats()" and the summary.  An
\* exception is caught by "except Exception", run returns False and main 1.
ClientAnalyze ==
    /\ cpc = "analyze"
    /\ LET multi_stats == AnalyzeMultiPeriod("messages", found)
       IN  IF "raised" \in DOMAIN multi_stats
           THEN /\ document' = multi_stats
                /\ gist_file' = FileAfterRun(FALSE, NoGistId)
                /\ exit_code' = ExitCode(FALSE)
                /\ cpc' = "exited"
           ELSE /\ document' = AnalyzeAndFormatStats(multi_stats)
                /\ cpc' = "upload"
                /\ UNCHANGED <<gist_file, exit_code>>
    /\ UNCHANGED <<analysis_run, reporter, entry, gist_id, requests, gists, runs>>

\* upload_to_gist(stats): PATCH of the stored gist or POST of a new one; a
\* status other than 200 and 201 raises.  Called from run, the returned id is
\* written to the file and run returns True; the exception makes run return
\* False.  (A request that raises has the effect of status 500.)
UploadToGist ==
    /\ cpc = "upload"
    /\ LET method == IF gist_id # NoGistId THEN "PATCH" ELSE "POST"
           id == IF method = "PATCH" THEN gist_id ELSE NewGistId
       IN  \E status \in StatusCodes(method, gist_id) :
               LET success == UploadSucceeded(status)
               IN  /\ requests' = Append(requests,
                          [method |-> method, gist_id |-> gist_id,
                           status |-> status, run |-> runs,
                           returned |-> IF success THEN id ELSE NoGistId])
                   /\ gists' = IF success THEN gists \cup {id} ELSE gists
                   /\ IF entry = "main"
                      THEN /\ gist_file' = FileAfterRun(success, id)
                           /\ exit_code' = ExitCode(success)
                           /\ cpc' = "exited"
                      ELSE /\ cpc' = IF success THEN "returned" ELSE "raised"
                           /\ UNCHANGED <<gist_file, exit_code>>
    /\ UNCHANGED <<analysis_run, reporter, entry, gist_id, document, runs>>

NextClient ==
    \/ ClientMain
    \/ ClientAnalyze
    \/ UploadToGist

SpecClient == InitClient /\ [][NextClient]_vars

(* ------------------- statistics in float arithmetic ------------------- *)

\* SpecFloat: the responses of one result.
MaxFloatPairs == 3

\* The significant bits of a Python float (an IEEE 754 double).
DoubleBits == 53

\* The magnitude of a float is kept in fixed point as FloatLimbs digits of
\* LimbBits bits, most significant first, the last FracLimbs of them after
\* the point.  Every double from 2^-7 up to 2^10, and every sum or difference
\* of two of them, is exact on this grid.
LimbBits == 10

FloatLimbs == 7

FracLimbs == 6

LimbBase == 2^LimbBits

ZeroLimbs(w) == [i \in 1..w |-> 0]

\* The w digits of the natural number n < LimbBase^3.
NatLimbs(n, w) ==
    [i \in 1..w |-> IF w - i >= 3 THEN 0 ELSE (n \div LimbBase^(w - i)) % LimbBase]

\* Long division of the digits by d < 2^20: the quotient digits and the
\* remainder.
RECURSIVE DivFrom(_, _, _, _, _)
DivFrom(limbs, d, i, r, quotient) ==
    IF i > Len(limbs) THEN <<quotient, r>>
    ELSE DivFrom(limbs, d, i + 1, (r * LimbBase + limbs[i]) % d,
                 Append(quotient, (r * LimbBase + limbs[i]) \div d))

DivLimbs(limbs, d) == DivFrom(limbs, d, 1, 0, <<>>)

\* a + b of two magnitudes of one length (the sum fits).
RECURSIVE AddFrom(_, _, _, _, _)
AddFrom(a, b, i, carry, total) ==
    IF i = 0 THEN total
    ELSE AddFrom(a, b, i - 1, (a[i] + b[i] + carry) \div LimbBase,
                 <<(a[i] + b[i] + carry) % LimbBase>> \o total)

AddLimbs(a, b) == AddFrom(a, b, Len(a), 0, <<>>)

\* a - b of two magnitudes, a >= b.
RECURSIVE SubFrom(_, _, _, _, _)
SubFrom(a, b, i, borrow, difference) ==
    IF i = 0 THEN difference
    ELSE SubFrom(a, b, i - 1, IF a[i] - b[i] - borrow < 0 THEN 1 ELSE 0,
                 <<(a[i] - b[i] - borrow) % LimbBase>> \o difference)

SubLimbs(a, b) == SubFrom(a, b, Len(a), 0, <<>>)

LessLimbs(a, b) ==
    \E i \in 1..Len(a) : a[i] < b[i] /\ \A j \in 1..(i - 1) : a[j] = b[j]

\* The number of bits of the digit x > 0.
BitLength(x) == CHOOSE k \in 1..LimbBits : 2^(k - 1) <= x /\ x < 2^k

\* Round to nearest, ties to even, at DoubleBits significant bits; sticky
\* tells that the exact value lies above the digits.
RoundToDouble(limbs, sticky) ==
    LET nonzero == {i \in 1..Len(limbs) : limbs[i] # 0}
        top == CHOOSE i \in nonzero : \A j \in nonzero : i <= j
        drop == (Len(limbs) - top) * LimbBits + BitLength(limbs[top]) - DoubleBits
        low == limbs[Len(limbs) - 1] * LimbBase + limbs[Len(limbs)]
        dropped == low % 2^drop
        odd == (low \div 2^drop) % 2 = 1
        up == \/ dropped > 2^(drop - 1)
              \/ dropped = 2^(drop - 1) /\ (sticky \/ odd)
        kept == [i \in 1..Len(limbs) |->
                    IF i = Len(limbs) - 1 THEN (low - dropped) \div LimbBase
                    ELSE IF i = Len(limbs) THEN (low - dropped) % LimbBase
                    ELSE limbs[i]]
    IN  IF nonzero = {} THEN limbs
        ELSE IF drop <= 0 THEN limbs
        ELSE IF up THEN AddLimbs(kept, NatLimbs(2^drop, Len(limbs)))
        ELSE kept

\* The float nearest to n / d: int true division, as timedelta.total_seconds()
\* divides microseconds by 10**6.
FloatOfRatio(n, d) ==
    LET q == DivLimbs(NatLimbs(n, 3) \o ZeroLimbs(FracLimbs), d)
    IN  [neg |-> FALSE,
         limbs |-> RoundToDouble(SubSeq(q[1], 3 + FracLimbs - FloatLimbs + 1,
                                        3 + FracLimbs), q[2] > 0)]

FloatZero == [neg |-> FALSE, limbs |-> ZeroLimbs(FloatLimbs)]

\* x + y in float arithmetic.
FloatAdd(x, y) ==
    IF x.neg = y.neg
    THEN [neg |-> x.neg, limbs |-> RoundToDouble(AddLimbs(x.limbs, y.limbs), FALSE)]
    ELSE IF LessLimbs(x.limbs, y.limbs)
    THEN [neg |-> y.neg, limbs |-> RoundToDouble(SubLimbs(y.limbs, x.limbs), FALSE)]
    ELSE [neg |-> x.neg /\ x.limbs # y.limbs,
          limbs |-> RoundToDouble(SubLimbs(x.limbs, y.limbs), FALSE)]

\* x - y in float arithmetic.
FloatSub(x, y) == FloatAdd(x, [neg |-> ~y.neg, limbs |-> y.limbs])

\* x / n in float arithmetic, n a positive int.
FloatDivInt(x, n) ==
    LET q == DivLimbs(x.limbs, n)
    IN  [neg |-> x.neg, limbs |-> RoundToDouble(q[1], q[2] > 0)]

\* x <= y for floats that are not negative.
FloatLeq(x, y) == ~LessLimbs(y.limbs, x.limbs)

\* sum(...) of floats before Python 3.12: one addition per item.
RECURSIVE SumNaive(_, _)
SumNaive(xs, total) ==
    IF xs = <<>> THEN total
    ELSE SumNaive(Tail(xs), FloatAdd(total, Head(xs)))

\* sum(...) of floats from Python 3.12 on: Neumaier's compensated summation.
RECURSIVE SumCompensated(_, _, _)
SumCompensated(xs, total, c) ==
    IF xs = <<>> THEN FloatAdd(total, c)
    ELSE LET x == Head(xs)
             t == FloatAdd(total, x)
             e == IF ~LessLimbs(total.limbs, x.limbs)
                  THEN FloatAdd(FloatSub(total, t), x)
                  ELSE FloatAdd(FloatSub(x, t), total)
         IN  SumCompensated(Tail(xs), t, FloatAdd(c, e))

FloatSum(xs, compensated) ==
    IF compensated THEN SumCompensated(xs, FloatZero, FloatZero)
    ELSE SumNaive(xs, FloatZero)

FloatLess(x, y) == LessLimbs(x.limbs, y.limbs)

\* Latencies of the runs below, in microseconds as a timedelta holds them:
\* 1 s, 1.5 s, 2.7 s and 3.3 s.
FloatMicros == {10^6, 15 * 10^5, 27 * 10^5, 33 * 10^5}

MicrosPerSecond == 10^6

\* rt['response_time'].total_seconds() of every response.
TotalSeconds(rts) ==
    [k \in 1..Len(rts) |-> FloatOfRatio(rts[k].response_time, MicrosPerSecond)]

FloatMin(fl) ==
    CHOOSE x \in {fl[i] : i \in 1..Len(fl)} :
        \A y \in {fl[i] : i \in 1..Len(fl)} : FloatLeq(x, y)

FloatMax(fl) ==
    CHOOSE x \in {fl[i] : i \in 1..Len(fl)} :
        \A y \in {fl[i] : i \in 1..Len(fl)} : FloatLeq(y, x)

\* The numbers of the dict the analyzers return, computed in floats.
\* compensated tells which sum() the interpreter has; Todoist adds with +=
\* in its loop and is never compensated.
FloatStats(rts, compensated) ==
    LET fl == TotalSeconds(rts)
        n == Len(rts)
    IN  IF n = 0
        THEN [total_responses |-> 0,
              message |-> "No responses found in the specified period"]
        ELSE [total_responses |-> n,
              avg_response_time_seconds |->
                  FloatDivInt(FloatSum(fl, compensated), n),
              median_response_time_seconds |->
                  StableSort(fl, FloatLess)[(n \div 2) + 1],
              fastest_response |-> FloatMin(fl),
              slowest_response |-> FloatMax(fl),
              response_details |-> rts]

InitFloat ==
    \E src \in MailSources \cup {"todoist"} :
    \E n \in 0..MaxFloatPairs :
    \E lat \in [1..n -> FloatMicros] :
        /\ source = src
        /\ db = <<>>
        /\ tasks = <<>>
        /\ start_date = 0
        /\ end_date = 0
        /\ pc = "calculate"
        /\ messages = <<>>
        /\ chats = <<>>
        /\ chat_order = <<>>
        /\ analyzed = {}
        /\ ci = 1
        /\ mi = 1
        /\ last_received = None
        /\ response_times = [k \in 1..n |-> [response_time |-> lat[k]]]
        /\ result = None
        /\ fetch = "ok"
        /\ first_pass = None
        /\ duration = <<0, 1>>
        /\ ClientIdle
        /\ MultiPeriodIdle
        /\ ReporterIdle

\* The statistics block of analyze_response_times (analyze_completed_tasks).
CalculateStatistics ==
    /\ pc = "calculate"
    /\ \E compensated \in IF source = "todoist" THEN {FALSE} ELSE BOOLEAN :
           result' = FloatStats(response_times, compensated)
    /\ pc' = "calculated"
    /\ UNCHANGED <<inputs, messages, chats, chat_order, analyzed, ci, mi,
                   last_received, response_times>>

SpecFloat == InitFloat /\ [][CalculateStatistics]_vars

(* ------------------------------- claims ------------------------------- *)

\* The sorted events of conversation c, as every pairing pass sees them: the
\* store keeps a conversation in date order.
Conversation(c) == LET Keep(m) == m.chat = c IN Filter(db, Keep)

\* The time of an event: Outlook reads sentDateTime on the user's messages.
EventTime(m) == IF source = "outlook" /\ m.is_from_me THEN m.sent ELSE m.date

\* The latencies a source accepts (only Messages filters).
Accepted(latency) ==
    source = "messages" => (latency >= 1 /\ latency <= 7 * 24 * 3600)

Within(t) == start_date <= t /\ t <= end_date

PairsOfChat(c) == {a \in 1..Len(response_times) : response_times[a].chat = c}

PairedAs(r, m) ==
    \E a \in 1..Len(response_times) :
        response_times[a].rid = r.id /\ response_times[a].sid = m.id

\* C1: in every pairing pass each received event is the received side of at
\* most one emitted pair, so a conversation never has more pairs than
\* received events.
C1_OnePairPerReceived ==
    /\ \A a \in 1..Len(response_times) : \A b \in 1..Len(response_times) :
           a # b => response_times[a].rid # response_times[b].rid
    /\ \A a \in 1..Len(response_times) :
           \E k \in 1..Len(db) :
               /\ db[k].id = response_times[a].rid
               /\ ~db[k].is_from_me
               /\ db[k].chat = response_times[a].chat
    /\ \A c \in Chats :
           Cardinality(PairsOfChat(c)) <=
           Cardinality({k \in 1..Len(db) : db[k].chat = c /\ ~db[k].is_from_me})

\* A Gmail thread with one received message and two replies in the window,
\* found through both replies, has given one pair.
C1_Witness ==
    /\ source = "gmail"
    /\ pc = "done"
    /\ Len(db) = 3
    /\ Len(messages) = 2
    /\ db[1].chat = db[2].chat /\ db[2].chat = db[3].chat
    /\ ~db[1].is_from_me /\ db[2].is_from_me /\ db[3].is_from_me
    /\ Within(db[2].date) /\ Within(db[3].date)
    /\ Len(response_times) = 1

\* C2: a conversation [RECEIVED@t0, SENT@t1, SENT@t2], t0 < t1 <= t2, all in
\* the window and t1 - t0 accepted, gives exactly the pair (t0, t1).
C2_FirstSentOnly ==
    (pc = "done" /\ source \in MailSources) =>
    \A c \in Chats :
        LET conv == Conversation(c) IN
        ( /\ Len(conv) = 3
          /\ ~conv[1].is_from_me /\ conv[2].is_from_me /\ conv[3].is_from_me
          /\ EventTime(conv[1]) < EventTime(conv[2])
          /\ EventTime(conv[2]) <= EventTime(conv[3])
          /\ \A k \in 1..3 : Within(EventTime(conv[k]))
          /\ Accepted(EventTime(conv[2]) - EventTime(conv[1])) )
        => /\ Cardinality(PairsOfChat(c)) = 1
           /\ \A a \in PairsOfChat(c) :
                 /\ response_times[a].received = EventTime(conv[1])
                 /\ response_times[a].sent = EventTime(conv[2])
                 /\ response_times[a].rid = conv[1].id
                 /\ response_times[a].sid = conv[2].id

\* The Messages walk has finished a chat [RECEIVED, SENT, SENT] in the window.
C2_Witness ==
    /\ source = "messages"
    /\ pc = "done"
    /\ Len(db) = 3
    /\ db[1].chat = db[2].chat /\ db[2].chat = db[3].chat
    /\ ~db[1].is_from_me /\ db[2].is_from_me /\ db[3].is_from_me
    /\ db[1].date < db[2].date /\ db[2].date < db[3].date
    /\ \A k \in 1..3 : Within(db[k].date)
    /\ Len(response_times) = 1
    /\ response_times[1].sid = db[2].id

\* C3: a conversation [RECEIVED@t0, RECEIVED@t1, SENT@t2], t0 < t1 < t2, the
\* SENT in the window and t2 - t1 accepted, gives exactly one pair, anchored
\* to t1.
C3_AnchorsToLatest ==
    (pc = "done" /\ source \in MailSources) =>
    \A c \in Chats :
        LET conv == Conversation(c) IN
        ( /\ Len(conv) = 3
          /\ ~conv[1].is_from_me /\ ~conv[2].is_from_me /\ conv[3].is_from_me
          /\ EventTime(conv[1]) < EventTime(conv[2])
          /\ EventTime(conv[2]) < EventTime(conv[3])
          /\ Within(EventTime(conv[3]))
          /\ Accepted(EventTime(conv[3]) - EventTime(conv[2])) )
        => /\ Cardinality(PairsOfChat(c)) = 1
           /\ \A a \in PairsOfChat(c) :
                 /\ response_times[a].received = EventTime(conv[2])
                 /\ response_times[a].rid = conv[2].id
                 /\ response_times[a].sent = EventTime(conv[3])
                 /\ response_times[a].response_time =
                        EventTime(conv[3]) - EventTime(conv[2])

\* The Messages walk has paired the later of two received messages.
C3_Witness ==
    /\ source = "messages"
    /\ pc = "done"
    /\ Len(db) = 3
    /\ db[1].chat = db[2].chat /\ db[2].chat = db[3].chat
    /\ ~db[1].is_from_me /\ ~db[2].is_from_me /\ db[3].is_from_me
    /\ db[1].date < db[2].date /\ db[2].date < db[3].date
    /\ Len(response_times) = 1
    /\ response_times[1].received = db[2].date

\* C4: a conversation with only SENT events, only RECEIVED events, or whose
\* SENT events all precede its first RECEIVED event, never yields a pair.
C4_NoReplyNoPair ==
    source \in MailSources =>
    \A c \in Chats :
        LET conv == Conversation(c) IN
        (\A i \in 1..Len(conv) : \A j \in 1..Len(conv) :
            i < j => ~(~conv[i].is_from_me /\ conv[j].is_from_me))
        => PairsOfChat(c) = {}

\* A pass has finished a conversation whose sent messages, inside the window,
\* all precede its received message.
C4_Witness ==
    /\ source \in MailSources
    /\ pc = "done"
    /\ Len(db) = 3
    /\ db[1].chat = db[3].chat /\ db[2].chat = db[3].chat
    /\ db[1].is_from_me /\ db[2].is_from_me /\ ~db[3].is_from_me
    /\ Within(EventTime(db[1])) /\ Within(EventTime(db[2]))
    /\ messages # <<>>
    /\ response_times = <<>>

\* C5: a pair is counted exactly when start_date <= sent <= end_date, both
\* ends included, wherever its received time lies.
C5_WindowBySentTime ==
    (pc = "done" /\ source \in MailSources) =>
    /\ \A a \in 1..Len(response_times) : Within(response_times[a].sent)
    /\ \A c \in Chats :
        LET conv == Conversation(c) IN
        \A k \in 1..(Len(conv) - 1) :
            ( /\ ~conv[k].is_from_me
              /\ conv[k + 1].is_from_me
              /\ Accepted(EventTime(conv[k + 1]) - EventTime(conv[k])) )
            => (Within(EventTime(conv[k + 1])) <=> PairedAs(conv[k], conv[k + 1]))

\* A counted pair whose reply was sent exactly at start_date and whose
\* received message lies before the window.
C5_Witness ==
    /\ source = "messages"
    /\ pc = "done"
    /\ \E a \in 1..Len(response_times) :
           /\ response_times[a].sent = start_date
           /\ response_times[a].received < start_date

\* C6: rejected latencies are discarded, never clamped: a Messages pair has
\* 1 second <= latency <= 7 days (0 rejected, exactly 7 days kept) and a
\* Todoist task in task_details has latency > 0.
C6_RejectedNotClamped ==
    /\ source = "messages" =>
         \A a \in 1..Len(response_times) :
             /\ response_times[a].response_time >= 1
             /\ response_times[a].response_time <= 7 * 24 * 3600
             /\ response_times[a].response_time =
                    response_times[a].sent - response_times[a].received
             /\ response_times[a].received = db[response_times[a].rid].date
             /\ response_times[a].sent = db[response_times[a].sid].date
    /\ (source = "messages" /\ pc = "done") =>
         \A c \in Chats :
             LET conv == Conversation(c) IN
             \A k \in 1..(Len(conv) - 1) :
                 ( /\ ~conv[k].is_from_me
                   /\ conv[k + 1].is_from_me
                   /\ Within(conv[k + 1].date) )
                 => LET latency == conv[k + 1].date - conv[k].date IN
                    /\ latency <= 0 => ~PairedAs(conv[k], conv[k + 1])
                    /\ latency > 7 * 24 * 3600 => ~PairedAs(conv[k], conv[k + 1])
                    /\ latency = 7 * 24 * 3600 => PairedAs(conv[k], conv[k + 1])
    /\ (source = "todoist" /\ pc = "done") =>
         /\ \A t \in 1..Len(tasks) :
                (tasks[t].completed_at # NoDate /\ tasks[t].added_at # NoDate
                 /\ tasks[t].completed_at - tasks[t].added_at <= 0)
                => ("task_details" \notin DOMAIN result
                    \/ \A d \in 1..Len(result.task_details) :
                           result.task_details[d].tid # tasks[t].id)
         /\ "task_details" \in DOMAIN result =>
                \A d \in 1..Len(result.task_details) :
                    LET e == result.task_details[d] IN
                    /\ e.latency_seconds > 0
                    /\ e.latency_seconds =
                           tasks[e.tid].completed_at - tasks[e.tid].added_at

\* The Messages walk has kept a pair whose latency is exactly 7 days.
C6_Witness ==
    /\ source = "messages"
    /\ pc = "done"
    /\ \E a \in 1..Len(response_times) :
           response_times[a].response_time = 7 * 24 * 3600

\* C7: every emitted pair has latency sent - received >= 0, in every source.
C7_LatencyNonNegative ==
    \A a \in 1..Len(response_times) : response_times[a].response_time >= 0

\* The latencies a finished run has counted, in the order it counted them.
CountedLatencies ==
    IF source = "todoist"
    THEN TaskLatencies(result.task_details)
    ELSE Latencies(response_times)

\* The median a finished run reports.
ReportedMedian ==
    IF source = "todoist"
    THEN result.median_latency_seconds
    ELSE result.median_response_time_seconds

HasCounted ==
    /\ pc = "done"
    /\ IF source = "todoist"
       THEN "task_details" \in DOMAIN result
       ELSE response_times # <<>>

\* C8: in all four analyzers the median is the element at index count // 2
\* of the ascending latencies: a counted latency with at most count // 2
\* latencies below it and more than count // 2 at or below it, so the upper
\* middle for an even count, never a mean; [10, 20, 30, 40] gives 30.
C8_MedianUpperMiddle ==
    HasCounted =>
        LET lat == CountedLatencies
            n == Len(lat)
            m == ReportedMedian
        IN  /\ \E k \in 1..n : lat[k] = m
            /\ Cardinality({k \in 1..n : lat[k] < m}) <= n \div 2
            /\ Cardinality({k \in 1..n : lat[k] <= m}) > n \div 2
            /\ (n = 4 /\ {lat[k] : k \in 1..n} = {10, 20, 30, 40}) => m = 30

\* A Todoist run has counted 40, 10, 30, 20 in that order and reports 30.
C8_Witness ==
    /\ source = "todoist"
    /\ pc = "done"
    /\ "task_details" \in DOMAIN result
    /\ TaskLatencies(result.task_details) = <<40, 10, 30, 20>>
    /\ result.median_latency_seconds = 30

\* Some conversation holds a received message directly followed by a reply
\* that falls in the window and that the source accepts.
SomePairInWindow ==
    \E c \in Chats :
        LET conv == Conversation(c)
        IN  \E k \in 1..(Len(conv) - 1) :
                /\ ~conv[k].is_from_me
                /\ conv[k + 1].is_from_me
                /\ Within(EventTime(conv[k + 1]))
                /\ Accepted(EventTime(conv[k + 1]) - EventTime(conv[k]))

StatKeys ==
    {"avg_response_time_seconds", "avg_response_time_hours",
     "avg_response_time_formatted", "median_response_time_seconds",
     "median_response_time_hours", "median_response_time_formatted",
     "fastest_response", "slowest_response"}

\* C9: when no pair falls in the window a mail analyzer still returns a
\* result: total_responses is 0, a message says so, and no average, median,
\* fastest or slowest field is present.
C9_EmptyResult ==
    (pc = "done" /\ source \in MailSources /\ ~SomePairInWindow) =>
        /\ result # None
        /\ "total_responses" \in DOMAIN result
        /\ result.total_responses = 0
        /\ "message" \in DOMAIN result
        /\ DOMAIN result \cap StatKeys = {}

\* An Outlook run over a conversation whose only reply was sent after the
\* window has returned the empty result.
C9_Witness ==
    /\ source = "outlook"
    /\ pc = "done"
    /\ Len(db) = 2
    /\ db[1].chat = db[2].chat
    /\ ~db[1].is_from_me /\ db[2].is_from_me
    /\ db[2].sent > end_date
    /\ db[2].sent > db[1].date
    /\ result.total_responses = 0

\* C10: in the report the three displayed buckets (under 1 hour, 1-24 hours,
\* over 24 hours) sum to the displayed combined total of the 24-hour period,
\* for every combination of Gmail, Outlook and Messages stats.
C10_BucketsSumToTotal ==
    (rpc = "done" /\ "total_responses" \in DOMAIN report) =>
        report.under_1_hour.count + report.from_1_to_24_hours.count
            + report.over_24_hours.count = report.total_responses

\* The sum of the latencies a source counted in a period, read off the
\* period's own average (sum over count), and the count itself.
LatencySum(data) ==
    IF "avg_response_time_seconds" \in DOMAIN data
    THEN data["avg_response_time_seconds"][1]
    ELSE 0

Counted(data) == Get(data, "total_responses", 0)

\* The average of period p over all three sources, as the report words it.
ExpectedAverage(p) ==
    LET g == Get(gmail_stats, p, EmptyDict)
        o == PeriodOf(outlook_stats, p)
        m == PeriodOf(messages_stats, p)
    IN  FormatDuration(LatencySum(g) + LatencySum(o) + LatencySum(m),
                       Counted(g) + Counted(o) + Counted(m))

\* C11: for each window the combined average the report shows is the sum of
\* the latencies of all responses counted in that window's combined total,
\* over every contributing source, divided by that total.
C11_CombinedAverage ==
    (rpc = "done" /\ "total_responses" \in DOMAIN report) =>
        /\ report.combined_average = ExpectedAverage("last_24h")
        /\ \A k \in 1..Len(report.rolling_averages) :
               LET section == report.rolling_averages[k]
               IN  section.combined_average =
                       ExpectedAverage(IF section.period_header = "Last 7 Days"
                                       THEN "last_7d" ELSE "last_28d")

\* C12: conversation A received 09:00 and answered 09:05, conversation B
\* received 08:00 and answered 20:00, window the whole day: count 2, fastest
\* 5 minutes, slowest 12 hours, mean 362.5 minutes (21750 s), and the
\* report's buckets hold 1 response under 1 hour, 1 in 1-24 hours, none over.
C12_TwoConversationDay ==
    pc = "done" =>
        IF source = "todoist"
        THEN /\ result.tasks_with_latency = 2
             /\ result.fastest_completion = 5 * 60
             /\ result.slowest_completion = 12 * 3600
             /\ result.avg_latency_seconds[1] * 2
                    = 725 * 60 * result.avg_latency_seconds[2]
        ELSE /\ result.total_responses = 2
             /\ result.fastest_response = 5 * 60
             /\ result.slowest_response = 12 * 3600
             /\ result.avg_response_time_seconds[1] * 2
                    = 725 * 60 * result.avg_response_time_seconds[2]
             /\ CountUnder(result.response_details, 3600) = 1
             /\ CountUnder(result.response_details, 86400)
                    - CountUnder(result.response_details, 3600) = 1
             /\ CountFrom(result.response_details, 86400) = 0

\* A Gmail run over the two conversations, B listed first, has finished and
\* counted both.
C12_Witness ==
    /\ source = "gmail"
    /\ pc = "done"
    /\ Len(db) = 4
    /\ db[1].date % 86400 = 8 * 3600
    /\ db[4].date % 86400 = 9 * 3600 + 5 * 60
    /\ Len(response_times) = 2

\* C13: in every source analyzer analyze_multi_period completes normally and
\* returns last_24h, last_7d and last_28d together with generated_at, all
\* computed against the one 'now' captured at call time.
C13_MultiPeriodReturns ==
    pc \in {"returned", "raised"} =>
        /\ pc = "returned"
        /\ {"last_24h", "last_7d", "last_28d", "generated_at"} \subseteq DOMAIN result
        /\ result.generated_at = "now"
        /\ result.last_7d.end_date = "now"
        /\ result.last_28d.end_date = "now"

\* C14: in generate_and_send_report the failure of one optional source never
\* aborts the run: the run goes on to generate and send the report.
C14_RunNeverAborts ==
    rpc # "raised AttributeError"

\* The count-0 "no data" result: a count of 0 with a "No ... in the specified
\* period" message.
CountZeroNoData ==
    /\ DOMAIN result # {}
    /\ "message" \in DOMAIN result
    /\ \/ "total_responses" \in DOMAIN result /\ result["total_responses"] = 0
       \/ "total_completed" \in DOMAIN result /\ result["total_completed"] = 0

\* C15: in every source a failed fetch is never reported as the count-0
\* "no data" result of a successful fetch that found nothing.
C15_FailureNotNoData ==
    (pc = "done" /\ fetch = "error") => ~CountZeroNoData

\* The number of events the run has read (the fetched tasks, the messages of
\* the conversations it analysed) whose required timestamp is missing or
\* unparseable.
Dropped ==
    IF source = "todoist"
    THEN Cardinality({k \in 1..Len(messages) :
            ~Parses(messages[k].completed_at) \/ ~Parses(messages[k].added_at)})
    ELSE Cardinality({k \in 1..Len(db) :
            /\ db[k].chat \in analyzed
            /\ ~Parses(db[k].date) \/ ~Parses(db[k].sent)})

\* The keys of a result that hold the period, the statistics of the counted
\* events and their details.
StatisticsKeys ==
    StatKeys \cup
    {"total_responses", "message", "analysis_period_days", "start_date",
     "end_date", "email_address", "generated_at", "response_details",
     "imessage_count", "sms_count", "total_completed", "tasks_with_latency",
     "avg_latency_seconds", "avg_latency_hours", "avg_latency_formatted",
     "median_latency_seconds", "median_latency_formatted",
     "fastest_completion", "slowest_completion", "task_details"}

\* Every counted pair or task is made of timestamps that parse.
CountedWellFormed ==
    IF source = "todoist"
    THEN "task_details" \in DOMAIN result =>
            \A k \in 1..Len(result.task_details) :
                /\ Parses(result.task_details[k].completed_at)
                /\ Parses(result.task_details[k].created_at)
    ELSE \A k \in 1..Len(response_times) :
            Parses(response_times[k].received) /\ Parses(response_times[k].sent)

\* The result tells how many events were dropped: a Todoist result holds the
\* fetched and the counted number of tasks; any other result needs a field
\* beyond its period and statistics.
DropCountAvailable ==
    IF source = "todoist"
    THEN {"total_completed", "tasks_with_latency"} \subseteq DOMAIN result
    ELSE (DOMAIN result \ StatisticsKeys) # {}

\* C16: an event with a missing or unparseable timestamp is dropped and never
\* aborts the pass: the pass returns statistics over the well-formed events,
\* and the result makes the number of dropped events available.
C16_DropsCounted ==
    pc = "done" =>
        /\ DOMAIN result \cap {"total_responses", "total_completed"} # {}
        /\ CountedWellFormed
        /\ Dropped > 0 => DropCountAvailable

\* C17: a pass run again on the same fetched events with the same window
\* (also on the per-chat lists the first pass sorted in place) gives the same
\* pairs in the same order and the same count, mean, median, fastest and
\* slowest.
C17_SecondPassSame ==
    (pc = "done" /\ first_pass # None) =>
        /\ response_times = first_pass.response_times
        /\ result = first_pass.result

\* A Messages pass over a chat with two messages of equal date has been run
\* twice and has found a pair.
C17_Witness ==
    /\ source = "messages"
    /\ pc = "done"
    /\ first_pass # None
    /\ Len(response_times) = 1
    /\ \E a \in 1..Len(messages) : \E b \in 1..Len(messages) :
           /\ a # b
           /\ messages[a].chat = messages[b].chat
           /\ messages[a].date = messages[b].date
           /\ messages[a].chat = response_times[1].chat

\* C18: format_duration floors: below 60 seconds it shows the whole seconds
\* N, N <= s < N + 1; from 60 the whole minutes N, N*60 <= s < (N+1)*60; from
\* 3600 the whole hours H and the whole minutes M of the rest; from 86400 the
\* whole days D and the whole hours H of the rest; the branches change
\* exactly at 60, 3600 and 86400.  The duration s is n / d.
C18_FormatFloors ==
    pc = "formatted" =>
        LET n == duration[1]
            d == duration[2]
            t == result
            N == t[1]
        IN  /\ n < 60 * d =>
                   (t[2] = "second" /\ N * d <= n /\ n < (N + 1) * d)
            /\ (60 * d <= n /\ n < 3600 * d) =>
                   (t[2] = "minute" /\ N * 60 * d <= n /\ n < (N + 1) * 60 * d)
            /\ (3600 * d <= n /\ n < 86400 * d) =>
                   LET M == t[Len(t) - 1]
                   IN  /\ t[2] = "hour" /\ t[Len(t)] = "min"
                       /\ N * 3600 * d <= n /\ n < (N + 1) * 3600 * d
                       /\ (N * 3600 + M * 60) * d <= n
                       /\ n < (N * 3600 + (M + 1) * 60) * d
            /\ n >= 86400 * d =>
                   LET H == t[IF N = 1 THEN 3 ELSE 4]
                   IN  /\ t[2] = "day"
                       /\ N * 86400 * d <= n /\ n < (N + 1) * 86400 * d
                       /\ (N * 86400 + H * 3600) * d <= n
                       /\ n < (N * 86400 + (H + 1) * 3600) * d

\* Half a second short of a day and an hour has been formatted as "1 day 0
\* hours".
C18_Witness ==
    /\ pc = "formatted"
    /\ duration = <<2 * (86400 + 3600) - 1, 2>>
    /\ result = <<1, "day", 0, "hour", "s">>

\* The unit word after the number k: singular exactly for k = 1.
UnitWord(word, k) == IF k = 1 THEN <<word>> ELSE <<word, "s">>

\* C19: in the text of format_duration each unit word (second, minute, hour,
\* day) is singular exactly when the number it follows is 1 and plural for
\* every other value, in every branch.
C19_PluralUnlessOne ==
    pc = "formatted" =>
        LET n == duration[1]
            d == duration[2]
            t == result
            N == t[1]
        IN  /\ n < 60 * d => t = <<N>> \o UnitWord("second", N)
            /\ (60 * d <= n /\ n < 3600 * d) =>
                   t = <<N>> \o UnitWord("minute", N)
            /\ (3600 * d <= n /\ n < 86400 * d) =>
                   t = <<N>> \o UnitWord("hour", N) \o <<t[Len(t) - 1], "min">>
            /\ n >= 86400 * d =>
                   LET H == t[IF N = 1 THEN 3 ELSE 4]
                   IN  t = <<N>> \o UnitWord("day", N) \o <<H>> \o UnitWord("hour", H)

\* The place of a message in the fetched list.
FetchedAt(msg) == CHOOSE j \in 1..Len(messages) : messages[j] = msg

\* The places <<chat, index>> of the per-chat lists that hold a message.
PlacesOf(msg) ==
    {p \in UNION {{<<c, k>> : k \in 1..Len(chats[c])} : c \in DOMAIN chats} :
        chats[p[1]][p[2]] = msg}

\* The chats whose list has been sorted: those before chat_order[ci], and
\* chat_order[ci] itself while its messages are paired.
SortedChats ==
    {chat_order[r] : r \in {x \in 1..Len(chat_order) :
                               x < ci \/ (x = ci /\ pc = "walk")}}

\* C20: the grouping of MessagesAnalyzer.analyze_response_times partitions
\* the fetched messages by chat_id: every fetched message is at exactly one
\* place of exactly one chat's list, the list of its own chat, and the lists
\* hold nothing else; when a chat's messages are paired its list is sorted
\* ascending by date with messages of equal date in their fetched order; an
\* empty fetch gives an empty mapping and no pairs.
C20_GroupingPartitions ==
    (source = "messages" /\ pc \in {"chat", "walk", "done"}) =>
        /\ \A j \in 1..Len(messages) :
               /\ Cardinality(PlacesOf(messages[j])) = 1
               /\ \A p \in PlacesOf(messages[j]) : p[1] = messages[j].chat
        /\ \A c \in DOMAIN chats :
               /\ Len(chats[c]) >= 1
               /\ \A k \in 1..Len(chats[c]) :
                      \E j \in 1..Len(messages) : messages[j] = chats[c][k]
        /\ \A c \in SortedChats :
               \A k \in 1..Len(chats[c]) : \A l \in (k + 1)..Len(chats[c]) :
                   /\ chats[c][k].date <= chats[c][l].date
                   /\ chats[c][k].date = chats[c][l].date =>
                          FetchedAt(chats[c][k]) < FetchedAt(chats[c][l])
        /\ messages = <<>> =>
               /\ DOMAIN chats = {}
               /\ chat_order = <<>>
               /\ response_times = <<>>
               /\ pc = "done" => result.total_responses = 0

\* A Messages pass has paired two chats, one of them with two messages of
\* the same date.
C20_Witness ==
    /\ source = "messages"
    /\ pc = "done"
    /\ Cardinality(DOMAIN chats) = 2
    /\ \E c \in DOMAIN chats :
           /\ Len(chats[c]) = 2
           /\ chats[c][1].date = chats[c][2].date

\* An empty fetch has been grouped and the pass has finished.
C20_EmptyFetch ==
    /\ source = "messages"
    /\ pc = "done"
    /\ messages = <<>>

\* A run of the client has gone through its analysis step.
RunAnalyzed == entry = "main" /\ cpc \in {"upload", "exited"} /\ document # None

\* The document holds period p of the analysis without response_details and
\* with every other key: the three datetimes as ISO text, the rest as it was.
PeriodPreserved(doc, multi_stats, p) ==
    /\ p \in DOMAIN doc
    /\ "response_details" \notin DOMAIN doc[p]
    /\ DOMAIN doc[p] = DOMAIN multi_stats[p] \ {"response_details"}
    /\ \A key \in DOMAIN doc[p] :
           doc[p][key] = IF key \in {"start_date", "end_date", "generated_at"}
                         THEN IsoFormat(multi_stats[p][key])
                         ELSE multi_stats[p][key]

\* C21: the stats document a MessagesClient run produces for upload holds no
\* response_details entry at any level (no contact, display name or
\* timestamps of single pairs), and holds every other key of each window's
\* stats, start_date, end_date and generated_at as ISO text.
C21_DocumentStripped ==
    RunAnalyzed =>
        /\ "raised" \notin DOMAIN document
        /\ "response_details" \notin DOMAIN document
        /\ \A k \in 1..Len(Periods) :
               PeriodPreserved(document, MultiPeriodDict("messages", found),
                               Periods[k])

\* The same for the document handed to upload_to_gist directly.
C21_SerializedDocument ==
    entry = "upload_to_gist" =>
        /\ "response_details" \notin DOMAIN document
        /\ \A k \in 1..Len(Periods) :
               PeriodPreserved(document, MultiPeriodDict("messages", found),
                               Periods[k])

\* A run started through main has ended (main without GITHUB_TOKEN starts
\* none).
RunEnded == entry = "main" /\ cpc = "exited" /\ document # None

\* The requests of the run that ended last.
RequestsOfRun == {k \in 1..Len(requests) : requests[k].run = runs}

\* C22: across the runs started through main, a gist is created (POST) only
\* when no stored id exists; a run with a stored id updates that gist
\* (PATCH) and a run without one creates a gist; after a successful run the
\* file .messages_gist_id holds the id the upload returned; once a run has
\* succeeded no later run creates a gist.
C22_OneGistAcrossRuns ==
    /\ \A k \in 1..Len(requests) :
           requests[k].method = "POST" <=> requests[k].gist_id = NoGistId
    /\ RunEnded =>
           /\ \E k \in RequestsOfRun :
                  requests[k].method =
                      IF gist_id # NoGistId THEN "PATCH" ELSE "POST"
           /\ exit_code = 0 =>
                  \E k \in RequestsOfRun : gist_file = requests[k].returned
    /\ \A k \in 1..Len(requests) : \A l \in (k + 1)..Len(requests) :
           (entry = "main" /\ UploadSucceeded(requests[k].status)) =>
               requests[l].method # "POST"

\* C23: when the analysis or the upload of MessagesClient.run fails, run
\* returns False, the file .messages_gist_id keeps the id it held when main
\* read it, and main returns 1; run returns True and main 0 only after an
\* upload that succeeded, with the returned id written to the file.  A
\* failed upload_to_gist raises and leaves the file alone.
C23_FailureLeavesFile ==
    /\ RunEnded =>
           LET failed == \/ "raised" \in DOMAIN document
                         \/ \E k \in RequestsOfRun :
                                ~UploadSucceeded(requests[k].status)
           IN  /\ exit_code \in {0, 1}
               /\ failed => (exit_code = 1 /\ gist_file = gist_id)
               /\ exit_code = 1 => gist_file = gist_id
               /\ exit_code = 0 =>
                      \E k \in RequestsOfRun :
                          /\ UploadSucceeded(requests[k].status)
                          /\ gist_file = requests[k].returned
    /\ (entry = "upload_to_gist" /\ cpc \in {"returned", "raised"}) =>
           /\ gist_file = gist_id
           /\ cpc = "raised" <=> ~UploadSucceeded(requests[1].status)

\* A run whose analysis failed has ended with exit code 1 and the stored id
\* still in the file.
C23_Witness ==
    /\ RunEnded
    /\ "raised" \in DOMAIN document
    /\ exit_code = 1
    /\ gist_file # NoGistId
    /\ gist_file = gist_id

\* upload_to_gist has raised on status 404.
C23_UploadRaised ==
    /\ entry = "upload_to_gist"
    /\ cpc = "raised"
    /\ requests[1].status = 404

\* C24: in the Messages walk of a conversation the pending received message
\* (last_received) is set by every received message, whatever it held; it
\* stays set on a sent message that is skipped as a follow-up; and it is
\* cleared only by a sent message that is counted as a pair with it: it is
\* never cleared without that pair being appended.
C24_PendingReceived ==
    [][pc = "walk" =>
          LET chat_messages == chats[chat_order[ci]]
              msg == chat_messages[mi]
          IN  /\ ~msg.is_from_me => last_received' = msg
              /\ (msg.is_from_me /\ last_received # None
                    /\ IsFollowUp(chat_messages, mi)) =>
                     last_received' = last_received
              /\ (last_received # None /\ last_received' = None) =>
                     response_times' =
                         Append(response_times, MessagesPair(last_received, msg))
      ]_vars

\* The positions <<received id, sent id>> the Gmail scan takes from the
\* sorted list of a chat, restricted to the latencies the Messages walk
\* accepts.
AdjacentPairs ==
    UNION {{<<chats[c][k].id, chats[c][k + 1].id>> :
               k \in {i \in 1..(Len(chats[c]) - 1) :
                         /\ GmailIsResponse(chats[c], i)
                         /\ ~TooFast(chats[c][i + 1].date - chats[c][i].date)
                         /\ ~TooSlow(chats[c][i + 1].date - chats[c][i].date)}} :
           c \in DOMAIN chats}

\* The pairs of the Messages walk, by the ids of their two messages.
WalkPairs ==
    {<<response_times[a].rid, response_times[a].sid>> :
        a \in 1..Len(response_times)}

\* C25: the Messages last_received walk and the Gmail adjacent-pair scan are
\* one pairing rule: in every pair of the walk the received message is the
\* immediate predecessor of the sent message in the sorted chat, and the
\* pairs of the walk are exactly the adjacent (received, sent) positions with
\* the sent time in the window and a latency from 1 second to 7 days.
C25_WalkIsAdjacentScan ==
    (source = "messages" /\ pc = "done") =>
        /\ \A a \in 1..Len(response_times) :
               LET c == response_times[a].chat
               IN  \E k \in 1..(Len(chats[c]) - 1) :
                       /\ chats[c][k].id = response_times[a].rid
                       /\ chats[c][k + 1].id = response_times[a].sid
        /\ WalkPairs = AdjacentPairs
        /\ Len(response_times) = Cardinality(AdjacentPairs)

\* The walk has gone over a chat of two received messages and a reply and
\* has paired the reply with the second.
C25_Witness ==
    /\ source = "messages"
    /\ pc = "done"
    /\ \E c \in DOMAIN chats :
           /\ Len(chats[c]) = 3
           /\ ~chats[c][1].is_from_me
           /\ ~chats[c][2].is_from_me
           /\ chats[c][3].is_from_me
           /\ WalkPairs = {<<chats[c][2].id, chats[c][3].id>>}

\* The pairs of a finished pass, by the ids of their two messages and their
\* sent time.
PassPairs(k) ==
    {<<passes[k].response_times[a].rid, passes[k].response_times[a].sid,
       passes[k].response_times[a].sent>> :
        a \in 1..Len(passes[k].response_times)}

\* C26: for one database and one now, the look-back fetch of Messages never
\* changes which pairs are found: the pairs of the trailing 7 days are the
\* pairs of the trailing 28 days sent at or after now - 7 days, the pairs of
\* the previous calendar day are the pairs of the trailing 7 days sent in
\* that day, and so count(24h) <= count(7d) <= count(28d).
C26_WindowsNest ==
    Len(passes) = Len(Periods) =>
        /\ PassPairs(2) =
               {x \in PassPairs(3) : x[3] >= RollingStart(now_utc, "last_7d")}
        /\ PassPairs(1) =
               {x \in PassPairs(2) :
                   /\ PreviousDayStart(now_utc) <= x[3]
                   /\ x[3] <= PreviousDayEnd(now_utc)}
        /\ \A k \in 1..Len(passes) :
               /\ Cardinality(PassPairs(k)) = Len(passes[k].response_times)
               /\ passes[k].stats.total_responses = Len(passes[k].response_times)
        /\ passes[1].stats.total_responses <= passes[2].stats.total_responses
        /\ passes[2].stats.total_responses <= passes[3].stats.total_responses

\* The three passes have run over a chat with a pair sent before the
\* trailing 7 days and a pair sent in them but not on the previous day.
C26_Witness ==
    /\ Len(passes) = Len(Periods)
    /\ passes[1].response_times = <<>>
    /\ Len(passes[2].response_times) = 1
    /\ Len(passes[3].response_times) = 2

\* A reply sent on the previous day to a message received before that day
\* is a pair of each pass.
C26_PreviousDayPair ==
    /\ Len(passes) = Len(Periods)
    /\ Len(passes[1].response_times) = 1
    /\ passes[1].response_times[1].received < PreviousDayStart(now_utc)
    /\ PassPairs(1) = PassPairs(3)

\* The keys of the four statistics of a result.
FloatStatKeys ==
    {"avg_response_time_seconds", "median_response_time_seconds",
     "fastest_response", "slowest_response"}

\* Every part of C27 but the bounds of the average, in float arithmetic:
\* the count is the number of details, the statistics are present exactly
\* when the count is positive, and fastest <= median <= slowest.
C27_CountPresenceMedian ==
    pc = "calculated" =>
        /\ \A key \in FloatStatKeys :
               (key \in DOMAIN result) <=> (result.total_responses > 0)
        /\ result.total_responses > 0 =>
               /\ result.total_responses = Len(result.response_details)
               /\ FloatLeq(result.fastest_response,
                           result.median_response_time_seconds)
               /\ FloatLeq(result.median_response_time_seconds,
                           result.slowest_response)

\* C27: every populated stats dict is internally consistent: the count is the
\* number of details, the average, median, fastest and slowest are present
\* exactly when the count is positive, fastest <= median <= slowest and
\* fastest <= average <= slowest.
C27_StatsConsistent ==
    /\ C27_CountPresenceMedian
    /\ pc = "calculated" /\ result.total_responses > 0 =>
           /\ FloatLeq(result.fastest_response,
                       result.avg_response_time_seconds)
           /\ FloatLeq(result.avg_response_time_seconds,
                       result.slowest_response)

\* Three responses of 2.7 seconds each have been averaged.
C27_ThreeEqual ==
    /\ pc = "calculated"
    /\ Len(response_times) = 3
    /\ \A k \in 1..3 : response_times[k].response_time = 27 * 10^5
    /\ FloatLess(result.slowest_response, result.avg_response_time_seconds)

\* The same consistency at whole seconds, where float arithmetic is exact,
\* for the dicts the analyzers return (the average is total / count).
C27_WholeSeconds ==
    pc = "done" /\ result # None =>
        IF source = "todoist"
        THEN /\ "tasks_with_latency" \in DOMAIN result =>
                 /\ result.tasks_with_latency <= result.total_completed
                 /\ ("task_details" \in DOMAIN result)
                        <=> (result.tasks_with_latency > 0)
             /\ "task_details" \in DOMAIN result =>
                 /\ result.tasks_with_latency = Len(result.task_details)
                 /\ result.fastest_completion <= result.median_latency_seconds
                 /\ result.median_latency_seconds <= result.slowest_completion
                 /\ result.fastest_completion * result.avg_latency_seconds[2]
                        <= result.avg_latency_seconds[1]
                 /\ result.avg_latency_seconds[1]
                        <= result.slowest_completion * result.avg_latency_seconds[2]
        ELSE "total_responses" \in DOMAIN result =>
             /\ ("response_details" \in DOMAIN result)
                    <=> (result.total_responses > 0)
             /\ "response_details" \in DOMAIN result =>
                 /\ result.total_responses = Len(result.response_details)
                 /\ result.fastest_response <= result.median_response_time_seconds
                 /\ result.median_response_time_seconds <= result.slowest_response
                 /\ result.fastest_response * result.avg_response_time_seconds[2]
                        <= result.avg_response_time_seconds[1]
                 /\ result.avg_response_time_seconds[1]
                        <= result.slowest_response * result.avg_response_time_seconds[2]

\* The (received, sent) message pairs of a list of responses.
MessagePairs(rts) == [k \in 1..Len(rts) |-> <<rts[k].rid, rts[k].sid>>]

NoPairTwice(rts) ==
    \A j, k \in 1..Len(rts) :
        j # k => MessagePairs(rts)[j] # MessagePairs(rts)[k]

\* C28: Gmail and Outlook analyze each thread (conversation) at most once, so
\* no (received, sent) pair of messages appears twice in response_details:
\* every pair found belongs to a thread in the analyzed set, and neither the
\* list under construction nor the returned response_details repeats a pair.
C28_ThreadOnce ==
    source \in {"gmail", "outlook"} =>
        /\ \A k \in 1..Len(response_times) : response_times[k].chat \in analyzed
        /\ NoPairTwice(response_times)
        /\ pc = "done" /\ result # None /\ "response_details" \in DOMAIN result =>
               NoPairTwice(result.response_details)

\* An Outlook run has ended with a pair of a conversation that the loop
\* reached twice, through two sent messages in the window.
C28_Witness ==
    /\ source = "outlook"
    /\ pc = "done"
    /\ "response_details" \in DOMAIN result
    /\ \E j, k \in 1..Len(messages) :
           /\ j < k
           /\ messages[j].chat = messages[k].chat
           /\ messages[j].sent >= start_date /\ messages[j].sent <= end_date
           /\ messages[k].sent >= start_date /\ messages[k].sent <= end_date
           /\ \E r \in 1..Len(result.response_details) :
                  result.response_details[r].chat = messages[k].chat

\* The same for a Gmail thread listed through two sent messages.
C28_GmailListedTwice ==
    /\ source = "gmail"
    /\ pc = "done"
    /\ "response_details" \in DOMAIN result
    /\ \E j, k \in 1..Len(messages) :
           /\ j < k
           /\ messages[j].chat = messages[k].chat
           /\ \E r \in 1..Len(result.response_details) :
                  result.response_details[r].chat = messages[k].chat

\* A step of the loop that appends pairs is the first analysis of its thread.
AppendsOnFirstVisit ==
    source \in {"gmail", "outlook"} /\ pc = "loop"
    /\ response_times' # response_times
        => /\ analyzed' # analyzed
           /\ \A k \in (Len(response_times) + 1)..Len(response_times') :
                  response_times'[k].chat \notin analyzed

C28_AppendsOnFirstVisit == [][AppendsOnFirstVisit]_vars

\* total_responses of one period of one source's stats, 0 where absent.
TotalOf(stats, p) ==
    IF stats = None THEN 0
    ELSE IF p \notin DOMAIN stats THEN 0
    ELSE IF "total_responses" \notin DOMAIN stats[p] THEN 0
    ELSE stats[p].total_responses

CombinedOf(p) ==
    TotalOf(gmail_stats, p) + TotalOf(outlook_stats, p) + TotalOf(messages_stats, p)

\* The sections of the full report.
FullReportKeys ==
    {"total_responses", "combined_average", "breakout", "under_1_hour",
     "from_1_to_24_hours", "over_24_hours", "rolling_averages"}

HasRolling(header) ==
    \E k \in 1..Len(report.rolling_averages) :
        report.rolling_averages[k].period_header = header

C29_ShortDespiteWider ==
    /\ rpc = "done"
    /\ CombinedOf("last_24h") = 0
    /\ CombinedOf("last_7d") > 0
    /\ CombinedOf("last_28d") > 0
    /\ "body" \in DOMAIN report

\* A full report with no rolling section at all.
C29_NoRolling ==
    /\ rpc = "done"
    /\ CombinedOf("last_24h") > 0
    /\ report.rolling_averages = <<>>

\* C30: the four copies of format_duration (Gmail, Outlook, Messages,
\* Todoist) return the same text for every input: the text the Gmail copy
\* returned is the text of each of the other three.
C30_CopiesAgree ==
    pc = "formatted" =>
        /\ result = OutlookFormatDuration(duration[1], duration[2])
        /\ result = MessagesFormatDuration(duration[1], duration[2])
        /\ result = TodoistFormatDuration(duration[1], duration[2])

\* A duration of a day and 13 and a half hours has been formatted, the same
\* by the Todoist copy.
C30_Witness ==
    /\ pc = "formatted"
    /\ duration = <<270001, 2>>
    /\ result = <<1, "day", 13, "hour", "s">>
    /\ result = TodoistFormatDuration(270001, 2)

=============================================================================
